---- MODULE Spec2Model ----
(***************************************************************************)
(* Record cache and relational-resolution engine of openerp_proxy          *)
(* (orm/record.py): Record, RecordList and the record entry points of      *)
(* ObjectRecords, over a shared Cache store.                               *)
(*                                                                         *)
(* Python objects are modelled by their index in a pool (handles, lists,   *)
(* caches); object identity is index equality.  Handlers are operators     *)
(* that take the world (the pools) and return the world they leave         *)
(* behind, because the handlers call each other.                           *)
(***************************************************************************)
EXTENDS Integers, Sequences, FiniteSets, TLC

VARIABLES
    caches,     \* pool of Cache stores: collection name -> bucket
    handles,    \* pool of Record objects
    lists,      \* pool of RecordList objects
    srvExists,  \* remote side: collection name -> ids of the rows that exist
    srvCountry, \* remote side: partner id -> id of its country, 0 for none
    made,       \* whether client code has made its record or list: every other
                \* object is derived from that one
    tracing,    \* whether the history of the last operation is kept
    last        \* history, kept when tracing: the last operation, how many
                \* rows its remote read asked for (0: it read nothing), and a
                \* detail: for a refresh the collections of the records with
                \* cached fields that it reached through resolved relations,
                \* for a copy the kind of its new_cache argument

vars == <<caches, handles, lists, srvExists, srvCountry, made, tracing, last>>

(***************************************************************************)
(* Bounds of the object pools.                                             *)
(***************************************************************************)
MaxHandles == 3
MaxLists == 2
MaxCaches == 2
MaxLen == 3

(***************************************************************************)
(* The remote data source: two collections, two row ids.                   *)
(***************************************************************************)
Colls == {"partner", "country"}
Ids == {1, 2}

\* Raw values as the remote read returns them.
RawFalse == [t |-> "false"]
RawStr(s) == [t |-> "str", s |-> s]
RawId(i) == [t |-> "id", id |-> i]
RawPair(i, n) == [t |-> "pair", id |-> i, name |-> n]
RawIds(q) == [t |-> "ids", ids |-> q]

\* Python truthiness of a raw value.
Truthy(v) ==
    CASE v.t = "false" -> FALSE
      [] v.t = "ids" -> v.ids # <<>>
      [] v.t = "str" -> v.s # ""
      [] v.t = "id" -> v.id # 0
      [] OTHER -> TRUE

\* A mapping with no keys (an empty dict).
EmptyMap == [k \in {} |-> k]

\* dict.update: the keys of b win.
MapMerge(a, b) ==
    [k \in DOMAIN a \cup DOMAIN b |-> IF k \in DOMAIN b THEN b[k] ELSE a[k]]

MapSet(m, k, v) == MapMerge(m, k :> v)

\* The context None, and the contexts callers pass.
NoneCtx == [none |-> TRUE]
CtxInputs == {NoneCtx, [lang |-> "fr"]}

\* Field metadata of the collections (Object.columns_info).
columns_info ==
    [c \in Colls |->
        IF c = "partner"
        THEN [name |-> [type |-> "char", relation |-> ""],
              country_id |-> [type |-> "many2one", relation |-> "country"],
              child_ids |-> [type |-> "one2many", relation |-> "partner"],
              image |-> [type |-> "binary", relation |-> ""],
              display_name |-> [type |-> "char", relation |-> "", function |-> TRUE]]
        ELSE [name |-> [type |-> "char", relation |-> ""]]]

\* Names client code asks a record for.
FieldNames == {"name", "country_id", "child_ids"}

\* The value of the country_id field of a partner on the remote side.
CountryNames == [i \in Ids |-> IF i = 1 THEN "X" ELSE "Y"]
RawCountry(i) ==
    IF srvCountry[i] = 0 THEN RawFalse ELSE RawPair(srvCountry[i], CountryNames[srvCountry[i]])

\* The rows held by the remote side.
srvData ==
    [c \in Colls |->
        IF c = "partner"
        THEN [i \in Ids |->
                IF i = 1
                THEN [name |-> RawStr("A"),
                      country_id |-> RawCountry(1),
                      child_ids |-> RawIds(<<2>>),
                      image |-> RawStr("png"),
                      display_name |-> RawStr("A (X)")]
                ELSE [name |-> RawStr("B"),
                      country_id |-> RawCountry(2),
                      child_ids |-> RawIds(<<>>),
                      image |-> RawFalse,
                      display_name |-> RawStr("B")]]
        ELSE [i \in Ids |-> [name |-> RawStr(CountryNames[i])]]]

\* Object.read(ids, fields, context): one row per requested id that exists,
\* holding 'id' and the requested fields (all fields when fields is None).
NoneFields == {"*"}
ProxyRead(obj, ids, fields) ==
    LET fs == IF fields = NoneFields THEN DOMAIN columns_info[obj] ELSE fields
    IN [i \in ids \cap srvExists[obj] |->
            MapMerge("id" :> RawId(i), [f \in fs |-> srvData[obj][i][f]])]

(***************************************************************************)
(* Cache store (orm/cache.py).                                             *)
(***************************************************************************)
EmptyBucket == [rows |-> EmptyMap, ctx |-> NoneCtx, pre |-> {}]
EmptyStore == [c \in Colls |-> EmptyBucket]

\* empty_cache(client): a new store, allocated at the end of the pool.
empty_cache(w) ==
    [w |-> [w EXCEPT !.caches = Append(@, EmptyStore)], c |-> Len(w.caches) + 1]

\* lcache[rid] on an ObjectCache: the row, created empty when absent.
Register(w, c, obj, rid) ==
    IF rid \in DOMAIN w.caches[c][obj].rows
    THEN w
    ELSE [w EXCEPT !.caches[c][obj].rows = MapSet(@, rid, EmptyMap)]

\* ObjectCache.update_keys(ids)
RECURSIVE update_keys(_, _, _, _)
update_keys(w, c, obj, ids) ==
    IF ids = <<>> THEN w
    ELSE update_keys(Register(w, c, obj, Head(ids)), c, obj, Tail(ids))

\* ObjectCache.update_context(context)
update_context(w, c, obj, context) ==
    IF context = NoneCtx THEN w
    ELSE [w EXCEPT !.caches[c][obj].ctx =
            IF @ = NoneCtx THEN context ELSE MapMerge(@, context)]

\* ObjectCache.get_ids_to_read(field)
get_ids_to_read(w, c, obj, name) ==
    {i \in DOMAIN w.caches[c][obj].rows : name \notin DOMAIN w.caches[c][obj].rows[i]}

\* ObjectCache.cache_field(rid, ftype, name, value)
cache_field(w, c, obj, rid, ftype, name, value) ==
    LET w1 == Register(w, c, obj, rid)
    IN [w1 EXCEPT !.caches[c][obj].rows[rid] = MapSet(@, name, value)]

\* ObjectCache.prefetch_fields(fields): the names are entered in the ledger
\* of the bucket; the rows are read when a field of them is asked for.
prefetch_fields(w, c, obj, fields) ==
    [w EXCEPT !.caches[c][obj].pre = @ \cup fields]

\* Every declared field, whatever its type.
simple_fields_all(obj) == DOMAIN columns_info[obj]
\* ObjectRecords.simple_fields
simple_fields(obj) ==
    {f \in DOMAIN columns_info[obj] :
        /\ columns_info[obj][f].type # "binary"
        /\ ~("function" \in DOMAIN columns_info[obj][f] /\ columns_info[obj][f].function)}

(***************************************************************************)
(* The world the handlers work on.                                         *)
(***************************************************************************)
World == [caches |-> caches, handles |-> handles, lists |-> lists, reads |-> <<>>,
          fail |-> FALSE]

\* The world of a call during which the remote side fails every read.
Failing(w) == [w EXCEPT !.fail = TRUE]

\* Values a handler returns.
RetNone == [k |-> "none"]
RetRec(h) == [k |-> "rec", i |-> h]
RetList(l) == [k |-> "list", i |-> l]
RetFalse == [k |-> "false"]
RetRaw(v) == [k |-> "raw", v |-> v]
RetInt(n) == [k |-> "int", n |-> n]
RetMethod(name, rid) == [k |-> "method", name |-> name, ids |-> <<rid>>]

\* Object.read called by a handler: the call is recorded, the rows returned.
IssueRead(w, obj, ids, fields, ctx) ==
    [w EXCEPT !.reads = Append(@, [obj |-> obj, ids |-> ids, fields |-> fields, ctx |-> ctx])]

\* Record._data, Record.context
Data(w, h) == w.caches[w.handles[h].cache][w.handles[h].obj].rows[w.handles[h].id]
Context(w, h) == w.caches[w.handles[h].cache][w.handles[h].obj].ctx

\* A constructor that leaves out the registration of the id.
Record_init_unregistered(w, obj, rid, cache, context) ==
    LET a == IF cache = 0 THEN empty_cache(w) ELSE [w |-> w, c |-> cache]
        w2 == update_context(a.w, a.c, obj, context)
        rec == [obj |-> obj, id |-> rid, cache |-> a.c, related |-> EmptyMap, attrs |-> {}]
    IN [w |-> [w2 EXCEPT !.handles = Append(@, rec)], h |-> Len(w2.handles) + 1]
\* Record.__init__ ; cache = 0 stands for cache=None
Record_init(w, obj, rid, cache, context) ==
    LET a == IF cache = 0 THEN empty_cache(w) ELSE [w |-> w, c |-> cache]
        w1 == Register(a.w, a.c, obj, rid)
        w2 == update_context(w1, a.c, obj, context)
        rec == [obj |-> obj, id |-> rid, cache |-> a.c, related |-> EmptyMap, attrs |-> {}]
    IN [w |-> [w2 EXCEPT !.handles = Append(@, rec)], h |-> Len(w2.handles) + 1]

get_record(w, obj, rid, cache, context) == Record_init(w, obj, rid, cache, context)

\* RecordList.prefetch(*fields); no names given is the empty set
prefetch(w, l, fields) ==
    prefetch_fields(w, w.lists[l].cache, w.lists[l].obj,
                    IF fields = {} THEN simple_fields(w.lists[l].obj) ELSE fields)

RECURSIVE NewRecords(_, _, _, _, _)
NewRecords(w, obj, ids, cache, acc) ==
    IF ids = <<>> THEN [w |-> w, hs |-> acc]
    ELSE LET r == get_record(w, obj, Head(ids), cache, NoneCtx)
         IN NewRecords(r.w, obj, Tail(ids), cache, Append(acc, r.h))

\* A constructor that leaves the context of the bucket as it is.
RecordList_init_nocontext(w, obj, ids, fields, cache, context) ==
    LET a == IF cache = 0 THEN empty_cache(w) ELSE [w |-> w, c |-> cache]
        w2 == update_keys(a.w, a.c, obj, ids)
        r == NewRecords(w2, obj, ids, a.c, <<>>)
        lst == [obj |-> obj, cache |-> a.c, records |-> r.hs]
        w3 == [r.w EXCEPT !.lists = Append(@, lst)]
        l == Len(w3.lists)
    IN [w |-> IF fields = NoneFields THEN w3 ELSE prefetch(w3, l, fields), l |-> l]
\* get_record_list / RecordList.__init__ ; cache = 0 stands for cache=None.
RecordList_init(w, obj, ids, fields, cache, context) ==
    LET a == IF cache = 0 THEN empty_cache(w) ELSE [w |-> w, c |-> cache]
        w1 == update_context(a.w, a.c, obj, context)
        w2 == update_keys(w1, a.c, obj, ids)
        r == NewRecords(w2, obj, ids, a.c, <<>>)
        lst == [obj |-> obj, cache |-> a.c, records |-> r.hs]
        w3 == [r.w EXCEPT !.lists = Append(@, lst)]
        l == Len(w3.lists)
    IN [w |-> IF fields = NoneFields THEN w3 ELSE prefetch(w3, l, fields), l |-> l]

get_record_list(w, obj, ids, fields, cache, context) ==
    RecordList_init(w, obj, ids, fields, cache, context)

\* RecordList.ids
ListIds(w, l) == [i \in DOMAIN w.lists[l].records |-> w.handles[w.lists[l].records[i]].id]

\* Record.__hash__ : hash of the pair, modelled by the pair itself
Record_hash(w, h) == <<w.handles[h].obj, w.handles[h].id>>

\* Equality by object identity.
Record_eq_identity(w, h, other) == h = other
\* Record.__eq__ against another Record, and against an integer
Record_eq(w, h, other) == w.handles[other].id = w.handles[h].id
Record_eq_int(w, h, n) == w.handles[h].id = n

\* RecordList.__contains__ for a Record (list membership: identity or ==)
\* and for an integer
List_contains(w, l, h) ==
    \E i \in DOMAIN w.lists[l].records :
        w.lists[l].records[i] = h \/ Record_eq(w, w.lists[l].records[i], h)
List_contains_int(w, l, n) == \E i \in DOMAIN ListIds(w, l) : ListIds(w, l)[i] = n

\* A resolution that makes the target anew at every access.
get_many2one_rel_obj_uncached(w, h, name, rel_data) ==
    IF Truthy(rel_data)
    THEN LET r == get_record(w, columns_info[w.handles[h].obj][name].relation,
                             rel_data.id, w.handles[h].cache, Context(w, h))
         IN [w |-> [r.w EXCEPT !.handles[h].related = MapSet(@, name, RetRec(r.h))],
             ret |-> RetRec(r.h)]
    ELSE [w |-> [w EXCEPT !.handles[h].related = MapSet(@, name, RetFalse)],
          ret |-> RetFalse]
\* Record._get_many2one_rel_obj(name, rel_data)
\* A resolution that builds the target without the context of the record.
get_many2one_rel_obj_nocontext(w, h, name, rel_data) ==
    IF name \notin DOMAIN w.handles[h].related
    THEN IF Truthy(rel_data)
         THEN LET r == get_record(w, columns_info[w.handles[h].obj][name].relation,
                                  rel_data.id, w.handles[h].cache, NoneCtx)
              IN [w |-> [r.w EXCEPT !.handles[h].related = MapSet(@, name, RetRec(r.h))],
                  ret |-> RetRec(r.h)]
         ELSE [w |-> [w EXCEPT !.handles[h].related = MapSet(@, name, RetFalse)],
               ret |-> RetFalse]
    ELSE [w |-> w, ret |-> w.handles[h].related[name]]
get_many2one_rel_obj(w, h, name, rel_data) ==
    IF name \notin DOMAIN w.handles[h].related
    THEN IF Truthy(rel_data)
         THEN LET r == get_record(w, columns_info[w.handles[h].obj][name].relation,
                                  rel_data.id, w.handles[h].cache, Context(w, h))
              IN [w |-> [r.w EXCEPT !.handles[h].related = MapSet(@, name, RetRec(r.h))],
                  ret |-> RetRec(r.h)]
         ELSE [w |-> [w EXCEPT !.handles[h].related = MapSet(@, name, RetFalse)],
               ret |-> RetFalse]
    ELSE [w |-> w, ret |-> w.handles[h].related[name]]

\* A resolution that puts the targets on a store of their own.
get_one2many_rel_obj_apart(w, h, name, rel_ids) ==
    IF name \notin DOMAIN w.handles[h].related
    THEN LET r == get_record_list(w, columns_info[w.handles[h].obj][name].relation,
                                  rel_ids.ids, NoneFields, 0, Context(w, h))
         IN [w |-> [r.w EXCEPT !.handles[h].related = MapSet(@, name, RetList(r.l))],
             ret |-> RetList(r.l)]
    ELSE [w |-> w, ret |-> w.handles[h].related[name]]
\* Record._get_one2many_rel_obj(name, rel_ids)
get_one2many_rel_obj(w, h, name, rel_ids) ==
    IF name \notin DOMAIN w.handles[h].related
    THEN LET r == get_record_list(w, columns_info[w.handles[h].obj][name].relation,
                                  rel_ids.ids, NoneFields, w.handles[h].cache, Context(w, h))
         IN [w |-> [r.w EXCEPT !.handles[h].related = MapSet(@, name, RetList(r.l))],
             ret |-> RetList(r.l)]
    ELSE [w |-> w, ret |-> w.handles[h].related[name]]

\* The loop of Record._get_field over the rows the read returned.
RECURSIVE CacheRows(_, _, _, _, _, _)
CacheRows(w, c, obj, ftype, name, rows) ==
    IF DOMAIN rows = {} THEN w
    ELSE LET i == CHOOSE j \in DOMAIN rows : TRUE
         IN CacheRows(cache_field(w, c, obj, rows[i]["id"].id, ftype, name, rows[i][name]),
                      c, obj, ftype, name, [j \in DOMAIN rows \ {i} |-> rows[j]])

\* A miss that asks for the record's own row only.
FieldMissIds_own(w, h, name) == {w.handles[h].id}
\* The ids Record._get_field asks the remote side for on a miss.
FieldMissIds(w, h, name) ==
    get_ids_to_read(w, w.handles[h].cache, w.handles[h].obj, name)

\* A test that takes every access for a miss.
NeedsRead_always(w, h, name) == TRUE
\* The test of Record._get_field for a miss: name not in self._data
NeedsRead(w, h, name) == name \notin DOMAIN Data(w, h)

\* A miss that takes a failed read for a read of no rows.
ReadFailed_swallowed(w, err) == [w |-> w, ret |-> RetNone, err |-> ""]
\* What is left of a read that raised: the call that was made, and the
\* exception, which the handler does not catch.
ReadFailed(w, err) == [w |-> w, ret |-> RetNone, err |-> err]

\* Record._get_field(ftype, name)
get_field(w, h, ftype, name) ==
    LET hd == w.handles[h]
        w0 == Register(w, hd.cache, hd.obj, hd.id)
        ids == FieldMissIds(w0, h, name)
        w1 == IF NeedsRead(w0, h, name)
              THEN CacheRows(IssueRead(w0, hd.obj, ids, {name}, Context(w0, h)),
                             hd.cache, hd.obj, ftype, name, ProxyRead(hd.obj, ids, {name}))
              ELSE w0
    IN IF w.fail /\ NeedsRead(w0, h, name)
       THEN ReadFailed(IssueRead(w0, hd.obj, ids, {name}, Context(w0, h)), "RemoteError")
       ELSE IF name \notin DOMAIN Data(w1, h)
       THEN [w |-> w1, ret |-> RetNone, err |-> "KeyError"]
       ELSE IF ftype = "many2one"
       THEN LET r == get_many2one_rel_obj(w1, h, name, Data(w1, h)[name])
            IN [w |-> r.w, ret |-> r.ret, err |-> ""]
       ELSE IF ftype \in {"one2many", "many2many"}
       THEN LET r == get_one2many_rel_obj(w1, h, name, Data(w1, h)[name])
            IN [w |-> r.w, ret |-> r.ret, err |-> ""]
       ELSE [w |-> w1, ret |-> RetRaw(Data(w1, h)[name]), err |-> ""]

\* An item access that gives None for a name that is no declared field.
Record_getitem_lenient(w, h, name) ==
    IF name = "id" THEN [w |-> w, ret |-> RetInt(w.handles[h].id), err |-> ""]
    ELSE IF name \notin DOMAIN columns_info[w.handles[h].obj]
    THEN [w |-> w, ret |-> RetNone, err |-> ""]
    ELSE get_field(w, h, columns_info[w.handles[h].obj][name].type, name)
\* Record.__getitem__(name)
Record_getitem(w, h, name) ==
    IF name = "id" THEN [w |-> w, ret |-> RetInt(w.handles[h].id), err |-> ""]
    ELSE IF name \notin DOMAIN columns_info[w.handles[h].obj]
    THEN [w |-> w, ret |-> RetNone, err |-> "KeyError"]
    ELSE get_field(w, h, columns_info[w.handles[h].obj][name].type, name)

\* Attributes the Object itself has, which are no remote methods.
ObjectAttrs == {"name"}

\* The except branch of Record.__getattr__ , r being what self[name] gave:
\* getattr(self._object, name) is a remote method, or an attribute of the
\* Object that wpartial cannot wrap; the method is bound to the id and set
\* on the instance.
GetattrOn(r, h, name) ==
    IF r.err # "KeyError" THEN r
    ELSE IF name \in ObjectAttrs THEN [w |-> r.w, ret |-> RetNone, err |-> "TypeError"]
    ELSE [w |-> [r.w EXCEPT !.handles[h].attrs = @ \cup {name}],
          ret |-> RetMethod(name, r.w.handles[h].id), err |-> ""]

\* getattr(record, name): an attribute set on the instance is found without
\* __getattr__ , anything else goes through Record.__getattr__(name)
Record_getattr(w, h, name) ==
    IF name \in w.handles[h].attrs
    THEN [w |-> w, ret |-> RetMethod(name, w.handles[h].id), err |-> ""]
    ELSE GetattrOn(Record_getitem(w, h, name), h, name)

\* The values of a dict, in some order.
RECURSIVE Values(_)
Values(m) ==
    IF DOMAIN m = {} THEN <<>>
    ELSE LET k == CHOOSE j \in DOMAIN m : TRUE
         IN <<m[k]>> \o Values([j \in DOMAIN m \ {k} |-> m[j]])

\* A clearing that empties every row of the bucket.
ClearData_bucket(w, h) ==
    LET hd == w.handles[h]
    IN [w EXCEPT !.caches[hd.cache][hd.obj].rows =
            [i \in DOMAIN @ \cup {hd.id} |-> "id" :> RawId(i)]]
\* What Record.refresh does to the row of the record.
ClearData(w, h) ==
    LET hd == w.handles[h]
        w0 == Register(w, hd.cache, hd.obj, hd.id)
    IN [w0 EXCEPT !.caches[hd.cache][hd.obj].rows[hd.id] = "id" :> RawId(hd.id)]

\* Record.refresh and RecordList.refresh: the record's row is cleared, its
\* memo of resolved relations emptied, and then every former target is
\* refreshed in turn.
RECURSIVE Record_refresh(_, _), RefreshAll(_, _)
\* A refresh that stops at the record.
Record_refresh_shallow(w, h) ==
    [ClearData(w, h) EXCEPT !.handles[h].related = EmptyMap]
\* Record.refresh
Record_refresh(w, h) ==
    LET rel_objects == Values(w.handles[h].related)
        w1 == [ClearData(w, h) EXCEPT !.handles[h].related = EmptyMap]
    IN RefreshAll(w1, rel_objects)

RefreshAll(w, rels) ==
    IF rels = <<>> THEN w
    ELSE LET rel == Head(rels)
             w1 == CASE rel.k = "rec" -> Record_refresh(w, rel.i)
                     [] rel.k = "list" ->
                          RefreshAll(w, [i \in DOMAIN w.lists[rel.i].records |->
                                            RetRec(w.lists[rel.i].records[i])])
                     [] OTHER -> w
         IN RefreshAll(w1, Tail(rels))

RecordList_refresh(w, l) ==
    RefreshAll(w, [i \in DOMAIN w.lists[l].records |-> RetRec(w.lists[l].records[i])])


\* The records Record.refresh reaches from a record: the record itself, the
\* records it has resolved, the members of the lists it has resolved, and on.
TargetsOf(w, h) ==
    LET rels == {w.handles[h].related[n] : n \in DOMAIN w.handles[h].related}
    IN {r.i : r \in {x \in rels : x.k = "rec"}}
       \cup UNION {{w.lists[r.i].records[i] : i \in DOMAIN w.lists[r.i].records} :
                    r \in {x \in rels : x.k = "list"}}

RECURSIVE ReachFrom(_, _)
ReachFrom(w, hs) ==
    LET more == hs \cup UNION {TargetsOf(w, h) : h \in hs}
    IN IF more = hs THEN hs ELSE ReachFrom(w, more)

Reach(w, h) == ReachFrom(w, {h})

\* The value Record.refresh returns.
refresh(w, h) == [w |-> Record_refresh(w, h), ret |-> RetRec(h)]

\* The calls of one refresh, in the order the interpreter makes them. calls
\* holds the calls still to make, first the next one; seen lists the records
\* refreshed so far, each with whether its memo held anything on entry; fuel
\* is the number of calls the run may still make.
RefreshFuel == (MaxHandles + 2) * (MaxLen + 3)

\* Record.refresh up to the loop over the former targets, with the memo left
\* in place.
RefreshEnter_keep(w, h) == ClearData(w, h)
\* Record.refresh up to the loop over the former targets: the row is cleared
\* and the memo replaced by an empty one.
RefreshEnter(w, h) == [ClearData(w, h) EXCEPT !.handles[h].related = EmptyMap]

\* The members of a list, as the calls RecordList.refresh makes.
MemberCalls(w, l) == [i \in DOMAIN w.lists[l].records |-> RetRec(w.lists[l].records[i])]

RECURSIVE RefreshRun(_, _, _, _)
RefreshRun(w, calls, seen, fuel) ==
    IF calls = <<>> THEN [w |-> w, seen |-> seen, done |-> TRUE]
    ELSE IF fuel = 0 THEN [w |-> w, seen |-> seen, done |-> FALSE]
    ELSE LET rel == Head(calls)
         IN CASE rel.k = "rec" ->
                   RefreshRun(RefreshEnter(w, rel.i),
                              Values(w.handles[rel.i].related) \o Tail(calls),
                              Append(seen, [h |-> rel.i,
                                            memo |-> DOMAIN w.handles[rel.i].related # {}]),
                              fuel - 1)
              [] rel.k = "list" ->
                   RefreshRun(w, MemberCalls(w, rel.i) \o Tail(calls), seen, fuel - 1)
              [] OTHER -> RefreshRun(w, Tail(calls), seen, fuel - 1)

\* The loop of Record.read over the rows the read returned.
RECURSIVE UpdateRows(_, _, _, _)
UpdateRows(w, c, obj, rows) ==
    IF DOMAIN rows = {} THEN w
    ELSE LET i == CHOOSE j \in DOMAIN rows : TRUE
             w1 == Register(w, c, obj, i)
         IN UpdateRows([w1 EXCEPT !.caches[c][obj].rows[i] = MapMerge(@, rows[i])],
                       c, obj, [j \in DOMAIN rows \ {i} |-> rows[j]])

\* A reread that asks for the record's own row whatever multi is.
Record_read_single(w, h, fields, context, multi) ==
    LET hd == w.handles[h]
        base == IF Context(w, h) = NoneCtx THEN EmptyMap ELSE Context(w, h)
        ctx == IF context = NoneCtx THEN base ELSE MapMerge(base, context)
        ids == {hd.id}
        rows == ProxyRead(hd.obj, ids, fields)
        w1 == IssueRead(w, hd.obj, ids, fields, IF ctx = EmptyMap THEN NoneCtx ELSE ctx)
    IN [w |-> UpdateRows(w1, hd.cache, hd.obj, rows),
        ret |-> IF hd.id \in DOMAIN rows THEN rows[hd.id] ELSE EmptyMap]
\* Record.read(fields, context, multi)
Record_read(w, h, fields, context, multi) ==
    LET hd == w.handles[h]
        base == IF Context(w, h) = NoneCtx THEN EmptyMap ELSE Context(w, h)
        ctx == IF context = NoneCtx THEN base ELSE MapMerge(base, context)
        ids == IF multi THEN DOMAIN w.caches[hd.cache][hd.obj].rows ELSE {hd.id}
        rows == ProxyRead(hd.obj, ids, fields)
        w1 == IssueRead(w, hd.obj, ids, fields, IF ctx = EmptyMap THEN NoneCtx ELSE ctx)
    IN [w |-> UpdateRows(w1, hd.cache, hd.obj, rows),
        ret |-> IF hd.id \in DOMAIN rows THEN rows[hd.id] ELSE EmptyMap]

\* An entry point that reads whatever fields is.
read_records_int_eager(w, obj, rid, fields, context, cache) ==
    LET r == get_record(w, obj, rid, 0, context)
    IN [w |-> Record_read(r.w, r.h, fields, NoneCtx, FALSE).w, h |-> r.h]
\* ObjectRecords.read_records(ids, fields, context, cache) with an integer ids
read_records_int(w, obj, rid, fields, context, cache) ==
    LET r == get_record(w, obj, rid, 0, context)
    IN IF fields # NoneFields
       THEN [w |-> Record_read(r.w, r.h, fields, NoneCtx, FALSE).w, h |-> r.h]
       ELSE r

\* ObjectRecords.read_records(ids, fields, context, cache) with a list of ids
read_records_list(w, obj, ids, fields, context, cache) ==
    get_record_list(w, obj, ids, fields, 0, context)

\* list.insert(index, x)
InsertAt(q, index, x) ==
    LET k == IF index > Len(q) THEN Len(q) ELSE index
    IN SubSeq(q, 1, k) \o <<x>> \o SubSeq(q, k + 1, Len(q))

\* RecordList.insert(index, item) with a Record
insert_record(w, l, index, h) ==
    [w EXCEPT !.lists[l].records = InsertAt(@, index, h)]

\* RecordList.insert(index, item) with an integer
insert_int(w, l, index, rid) ==
    LET r == read_records_int(w, w.lists[l].obj, rid, NoneFields, NoneCtx, 0)
    IN [r.w EXCEPT !.lists[l].records = InsertAt(@, index, r.h)]

\* RecordList.__setitem__(index, value) with a Record
setitem(w, l, index, h) == [w EXCEPT !.lists[l].records[index] = h]

\* RecordList.__delitem__(index)
delitem(w, l, index) ==
    [w EXCEPT !.lists[l].records =
        SubSeq(@, 1, index - 1) \o SubSeq(@, index + 1, Len(@))]

\* RecordList.__getitem__(slice): the records at positions a+1 .. b
getslice(w, l, a, b) ==
    get_record_list(w, w.lists[l].obj, SubSeq(ListIds(w, l), a + 1, b),
                    NoneFields, w.lists[l].cache, NoneCtx)

\* A selection that takes each id once.
RECURSIVE SelectIds_once(_, _)
SelectIds_once(q, keep) ==
    IF q = <<>> THEN <<>>
    ELSE LET rest == SelectIds_once(SubSeq(q, 1, Len(q) - 1), keep)
             x == q[Len(q)]
         IN IF x \in keep /\ ~\E i \in DOMAIN rest : rest[i] = x THEN Append(rest, x) ELSE rest
\* RecordList.filter(func), for a func that tells by the record's id
SelectIds(q, keep) == SelectSeq(q, LAMBDA i : i \in keep)
filter(w, l, keep) ==
    get_record_list(w, w.lists[l].obj, SelectIds(ListIds(w, l), keep),
                    NoneFields, w.lists[l].cache, NoneCtx)

\* RecordList.copy(context, new_cache); new_cache is False, True, None, a
\* Cache (its index), an integer or a string
NewCacheArgs == {[k |-> "bool", b |-> FALSE], [k |-> "bool", b |-> TRUE],
                 [k |-> "none"]}
NewCacheOdd == {[k |-> "int", n |-> 0], [k |-> "int", n |-> 1],
                [k |-> "str", s |-> ""], [k |-> "str", s |-> "yes"]}

\* A test that takes only False for false.
PyNot_strict(v) == v.k = "bool" /\ ~v.b
\* not new_cache, of Python: None, False, 0 and the empty string
PyNot(v) ==
    CASE v.k = "none" -> TRUE
      [] v.k = "bool" -> ~v.b
      [] v.k = "int" -> v.n = 0
      [] v.k = "str" -> v.s = ""
      [] OTHER -> FALSE

\* A copy that puts the records of the source in a list on a new store.
copy_shared(w, l, context, new_cache) ==
    LET a == empty_cache(w)
        lst == [obj |-> w.lists[l].obj, cache |-> a.c, records |-> w.lists[l].records]
    IN [w |-> [a.w EXCEPT !.lists = Append(@, lst)], l |-> RetList(Len(w.lists) + 1), err |-> ""]
\* RecordList.copy(context, new_cache)
copy(w, l, context, new_cache) ==
    IF new_cache.k = "cache"
    THEN [get_record_list(w, w.lists[l].obj, ListIds(w, l), NoneFields,
                          new_cache.c, context) EXCEPT !.l = RetList(@)] @@ [err |-> ""]
    ELSE IF PyNot(new_cache)
    THEN [get_record_list(w, w.lists[l].obj, ListIds(w, l), NoneFields,
                          w.lists[l].cache, context) EXCEPT !.l = RetList(@)] @@ [err |-> ""]
    ELSE IF new_cache.k = "bool" /\ new_cache.b
    THEN LET a == empty_cache(w)
         IN [get_record_list(a.w, w.lists[l].obj, ListIds(w, l), NoneFields,
                             a.c, context) EXCEPT !.l = RetList(@)] @@ [err |-> ""]
    ELSE [w |-> w, l |-> RetNone, err |-> "ValueError"]

\* The ids of a set in ascending order.
RECURSIVE Ascending(_)
Ascending(S) ==
    IF S = {} THEN <<>>
    ELSE LET m == CHOOSE x \in S : \A y \in S : x <= y
         IN <<m>> \o Ascending(S \ {m})

\* Object.search(domain): the ids of the existing rows the domain matches;
\* a domain is given by the set of ids it matches.
search(obj, domain) == Ascending(domain \cap srvExists[obj])

\* Object.exists(ids): the ids among ids that exist on the remote side.
exists(obj, ids) == {ids[i] : i \in DOMAIN ids} \cap srvExists[obj]

\* ObjectRecords.search_records(domain, read_fields, context, cache, count);
\* cache = 0 stands for cache=None
search_records(w, obj, domain, read_fields, context, cache, count) ==
    LET res == search(obj, domain)
    IN IF count THEN [w |-> w, ret |-> RetInt(Len(res))]
       ELSE IF res = <<>>
       THEN LET r == get_record_list(w, obj, <<>>, read_fields, cache, context)
            IN [w |-> r.w, ret |-> RetList(r.l)]
       ELSE LET r == read_records_list(w, obj, res, read_fields, context, cache)
            IN [w |-> r.w, ret |-> RetList(r.l)]

\* The loop of RecordList.existing over self.ids
RECURSIVE ExistingIds(_, _, _, _)
ExistingIds(ids, existing_ids, uniqify, new_ids) ==
    IF ids = <<>> THEN new_ids
    ELSE LET id_ == Head(ids)
             skip == \/ id_ \notin existing_ids
                     \/ (uniqify /\ \E i \in DOMAIN new_ids : new_ids[i] = id_)
         IN ExistingIds(Tail(ids), existing_ids, uniqify,
                        IF skip THEN new_ids ELSE Append(new_ids, id_))

\* A filter that asks the remote side nothing.
existing_keepall(w, l, uniqify) ==
    get_record_list(w, w.lists[l].obj, ListIds(w, l), NoneFields, w.lists[l].cache, NoneCtx)
\* RecordList.existing(uniqify)
existing(w, l, uniqify) ==
    LET existing_ids == exists(w.lists[l].obj, ListIds(w, l))
        new_ids == ExistingIds(ListIds(w, l), existing_ids, uniqify, <<>>)
    IN get_record_list(w, w.lists[l].obj, new_ids, NoneFields, w.lists[l].cache, NoneCtx)

\* A combination that keeps the context of the list whatever is passed.
new_context_own(w, l, context) == w.caches[w.lists[l].cache][w.lists[l].obj].ctx
\* RecordList._new_context(new_context)
new_context(w, l, context) ==
    LET own == w.caches[w.lists[l].cache][w.lists[l].obj].ctx
    IN IF context = NoneCtx THEN own
       ELSE IF own = NoneCtx THEN context ELSE MapMerge(own, context)

\* A read wrapper that writes the rows into the bucket.
RecordList_read_caching(w, l, fields, context) ==
    LET ids == {ListIds(w, l)[i] : i \in DOMAIN ListIds(w, l)}
        rows == ProxyRead(w.lists[l].obj, ids, fields)
    IN [w |-> UpdateRows(IssueRead(w, w.lists[l].obj, ids, fields, new_context(w, l, context)),
                         w.lists[l].cache, w.lists[l].obj, rows),
        ret |-> rows]
\* RecordList.read(fields, context)
RecordList_read(w, l, fields, context) ==
    LET ids == {ListIds(w, l)[i] : i \in DOMAIN ListIds(w, l)}
    IN [w |-> IssueRead(w, w.lists[l].obj, ids, fields, new_context(w, l, context)),
        ret |-> ProxyRead(w.lists[l].obj, ids, fields)]

\* Search domains: sequences of terms (field, operator, value), all of which
\* a row has to meet.
IdIn(ids) == [f |-> "id", op |-> "in", ids |-> ids]
NameIs(s) == [f |-> "name", op |-> "=", s |-> s]
Domains == {<<>>, <<NameIs("A")>>, <<IdIn(<<2>>)>>, <<NameIs("B"), IdIn(<<1, 2>>)>>}

TermMeets(obj, i, term) ==
    IF term.f = "id"
    THEN \E k \in DOMAIN term.ids : term.ids[k] = i
    ELSE srvData[obj][i][term.f] = RawStr(term.s)

\* The ids of the rows that meet every term of a domain.
DomainIds(obj, domain) ==
    {i \in Ids : \A k \in DOMAIN domain : TermMeets(obj, i, domain[k])}

\* RecordList.search(domain, context=context); call is what is passed to
\* Object.search
RecordList_search(w, l, domain, context) ==
    LET obj == w.lists[l].obj
        dom == <<IdIn(ListIds(w, l))>> \o domain
    IN [w |-> w,
        call |-> [obj |-> obj, domain |-> dom, ctx |-> new_context(w, l, context)],
        ret |-> search(obj, DomainIds(obj, dom))]

\* RecordList.search_records(domain, context=context); call is what is
\* passed to ObjectRecords.search_records
RecordList_search_records(w, l, domain, context) ==
    LET obj == w.lists[l].obj
        dom == <<IdIn(ListIds(w, l))>> \o domain
        r == search_records(w, obj, DomainIds(obj, dom), NoneFields,
                            new_context(w, l, context), 0, FALSE)
    IN [w |-> r.w,
        call |-> [obj |-> obj, domain |-> dom, ctx |-> new_context(w, l, context)],
        ret |-> r.ret]

\* Equality of two dictionary keys: records by hash and ==, the rest by value.
KeyEq(w, a, b) ==
    IF a.k = "rec" /\ b.k = "rec"
    THEN /\ Record_hash(w, a.i) = Record_hash(w, b.i)
         /\ (a.i = b.i \/ Record_eq(w, a.i, b.i))
    ELSE a = b

\* What a grouper makes of a record: record[grouper] for a field name, the
\* result of the call for a callable (given by its value on each row id).
Groupers == {[k |-> "field", name |-> "name"], [k |-> "field", name |-> "country_id"],
             [k |-> "fn", f |-> [i \in Ids |-> RawStr("all")]],
             [k |-> "fn", f |-> [i \in Ids |-> RawId(i)]]}
GroupKey(w, h, grouper) ==
    IF grouper.k = "field"
    THEN Record_getitem(w, h, grouper.name)
    ELSE [w |-> w, ret |-> RetRaw(grouper.f[w.handles[h].id]), err |-> ""]

\* A grouping that puts the record in front of its group.
GroupAdd_front(w, gl, h) == insert_record(w, gl, 0, h)
\* res[key].append(record)
GroupAdd(w, gl, h) == insert_record(w, gl, Len(w.lists[gl].records), h)

\* The loop of RecordList.group_by over the records; res is the dictionary
\* built so far, as a sequence of entries.
RECURSIVE GroupLoop(_, _, _, _, _)
\* The first record of a key: g is the defaultdict's new, empty RecordList.
GroupNew(g, key, l, recs, grouper, res) ==
    GroupLoop(GroupAdd(g.w, g.l, Head(recs)), l, Tail(recs), grouper,
              Append(res, [key |-> key, l |-> g.l]))
\* One turn of the loop, k being what the grouper made of the first record.
GroupStep(k, l, recs, grouper, res) ==
    IF k.err # "" THEN [w |-> k.w, ret |-> <<>>, err |-> k.err]
    ELSE IF \E e \in DOMAIN res : KeyEq(k.w, res[e].key, k.ret)
    THEN LET e == CHOOSE e \in DOMAIN res : KeyEq(k.w, res[e].key, k.ret)
         IN GroupLoop(GroupAdd(k.w, res[e].l, Head(recs)), l, Tail(recs), grouper, res)
    ELSE GroupNew(get_record_list(k.w, k.w.lists[l].obj, <<>>, NoneFields,
                                  k.w.lists[l].cache, NoneCtx),
                  k.ret, l, recs, grouper, res)
GroupLoop(w, l, recs, grouper, res) ==
    IF recs = <<>> THEN [w |-> w, ret |-> res, err |-> ""]
    ELSE GroupStep(GroupKey(w, Head(recs), grouper), l, recs, grouper, res)

\* RecordList.group_by(grouper)
group_by(w, l, grouper) == GroupLoop(w, l, w.lists[l].records, grouper, <<>>)

\* Python truthiness of a value a record hands out.
ValTruthy(w, val) ==
    CASE val.k = "rec" -> TRUE
      [] val.k = "list" -> w.lists[val.i].records # <<>>
      [] val.k = "raw" -> Truthy(val.v)
      [] OTHER -> FALSE

\* get_field(rec) inside RecordList.mapped: the walk along the path
RECURSIVE Walk(_, _, _)
\* val = val[field], r being what the item access gave
WalkOn(r, fields) ==
    IF r.err # "" THEN [w |-> r.w, val |-> RetNone, err |-> r.err]
    ELSE Walk(r.w, r.ret, Tail(fields))
Walk(w, val, fields) ==
    IF fields = <<>> \/ ~ValTruthy(w, val) THEN [w |-> w, val |-> val, err |-> ""]
    ELSE IF val.k = "rec" THEN WalkOn(Record_getitem(w, val.i, Head(fields)), fields)
    ELSE [w |-> w, val |-> RetNone, err |-> "TypeError"]

\* Object.resolve_field_path(path)[-1]: the relation of the terminal field
RECURSIVE resolve_field_path(_, _)
resolve_field_path(obj, path) ==
    IF Len(path) = 1 THEN columns_info[obj][path[1]].relation
    ELSE resolve_field_path(columns_info[obj][path[1]].relation, Tail(path))

\* The paths client code maps over.
Paths == {<<"name">>, <<"country_id">>, <<"child_ids">>, <<"country_id", "name">>}

\* res.extend(val) on a RecordList res
RECURSIVE Extend(_, _, _)
Extend(w, l, recs) ==
    IF recs = <<>> THEN w
    ELSE Extend(insert_record(w, l, Len(w.lists[l].records), Head(recs)), l, Tail(recs))

\* val in res, for a plain list res
SeqContains(w, q, val) == \E i \in DOMAIN q : q[i] = val

\* The loop of RecordList.mapped over the records; res is the RecordList
\* (RetList) or the plain list (seq) being filled.
RECURSIVE MapLoop(_, _, _, _)
\* One turn of the loop, v being what the walk from the first record gave.
MapStep(v, recs, path, res) ==
    IF v.err # "" THEN [w |-> v.w, ret |-> RetNone, err |-> v.err]
    ELSE IF ~ValTruthy(v.w, v.val) THEN MapLoop(v.w, Tail(recs), path, res)
    ELSE IF v.val.k = "list"
    THEN IF res.k = "list"
         THEN MapLoop(Extend(v.w, res.i, v.w.lists[v.val.i].records),
                      Tail(recs), path, res)
         ELSE MapLoop(v.w, Tail(recs), path,
                      [res EXCEPT !.vals = @ \o [i \in DOMAIN v.w.lists[v.val.i].records |->
                                                    RetRec(v.w.lists[v.val.i].records[i])]])
    ELSE IF res.k = "list"
    THEN IF v.val.k = "rec" /\ List_contains(v.w, res.i, v.val.i)
         THEN MapLoop(v.w, Tail(recs), path, res)
         ELSE IF v.val.k = "rec"
         THEN MapLoop(insert_record(v.w, res.i, Len(v.w.lists[res.i].records), v.val.i),
                      Tail(recs), path, res)
         ELSE [w |-> v.w, ret |-> RetNone, err |-> "AssertionError"]
    ELSE IF SeqContains(v.w, res.vals, v.val)
    THEN MapLoop(v.w, Tail(recs), path, res)
    ELSE MapLoop(v.w, Tail(recs), path, [res EXCEPT !.vals = Append(@, v.val)])
MapLoop(w, recs, path, res) ==
    IF recs = <<>> THEN [w |-> w, ret |-> res, err |-> ""]
    ELSE MapStep(Walk(w, RetRec(Head(recs)), path), recs, path, res)

\* RecordList.mapped(field), the path given as the sequence of its names
mapped(w, l, path) ==
    LET res_rel_model == resolve_field_path(w.lists[l].obj, path)
    IN IF res_rel_model # ""
       THEN LET r == get_record_list(w, res_rel_model, <<>>, NoneFields, w.lists[l].cache,
                                     w.caches[w.lists[l].cache][w.lists[l].obj].ctx)
            IN MapLoop(r.w, r.w.lists[l].records, path, RetList(r.l))
       ELSE MapLoop(w, w.lists[l].records, path, [k |-> "seq", vals |-> <<>>])

(***************************************************************************)
(* The operations client code performs.                                    *)
(***************************************************************************)
Start(trace) ==
    /\ caches = <<>>
    /\ handles = <<>>
    /\ lists = <<>>
    /\ srvExists = [c \in Colls |-> Ids]
    /\ srvCountry = [i \in Ids |-> IF i = 1 THEN 1 ELSE 0]
    /\ made = FALSE
    /\ tracing = trace
    /\ last = [op |-> "init", n |-> 0, via |-> {}]

Init == Start(FALSE)

InitTraced == Start(TRUE)

FitsWith(w, room) ==
    /\ Len(w.caches) <= MaxCaches
    /\ Len(w.handles) <= room
    /\ Len(w.lists) <= MaxLists
    /\ \A l \in DOMAIN w.lists : Len(w.lists[l].records) <= MaxLen

Fits(w) == FitsWith(w, MaxHandles)

\* Room in the pool of records for the members of a list of two and the
\* target of each.
TargetRoom == MaxHandles + 1

CommitIn(w, op, via, room) ==
    /\ FitsWith(w, room)
    /\ caches' = w.caches
    /\ handles' = w.handles
    /\ lists' = w.lists
    /\ last' = IF tracing
               THEN [op |-> op,
                     n |-> IF w.reads = <<>> THEN 0 ELSE Cardinality(w.reads[1].ids),
                     via |-> via]
               ELSE last
    /\ UNCHANGED <<srvExists, srvCountry, tracing>>

Commit(w, op, via) == CommitIn(w, op, via, MaxHandles)

\* The step of a handler that may raise: r is its outcome, op its name.
Finish(r, op) == Commit(r.w, IF r.err = "" THEN op ELSE r.err, {})

CacheArgs == {0} \cup DOMAIN caches

\* get_record(obj, rid, cache, context)
NewRecord ==
    \E rid \in Ids, c \in CacheArgs, ctx \in CtxInputs :
        LET r == get_record(World, "partner", rid, c, ctx)
        IN /\ ~made
           /\ Commit(r.w, "get_record", {})
           /\ made' = TRUE

\* The declared fields a record holds a cached value for.
CachedFields(w, h) == DOMAIN Data(w, h) \cap DOMAIN columns_info[w.handles[h].obj]

\* record[name]
GetItem ==
    \E h \in DOMAIN handles, name \in FieldNames :
        LET r == Record_getitem(World, h, name)
        IN /\ Commit(r.w, IF r.err = "" THEN "getitem" ELSE r.err, {})
           /\ UNCHANGED made

\* record.refresh()
Refresh ==
    \E h \in DOMAIN handles :
        /\ Commit(refresh(World, h).w, "refresh",
                  {handles[t].obj : t \in {u \in Reach(World, h) \ {h} :
                                                CachedFields(World, u) # {}}})
        /\ UNCHANGED made

\* record.read(fields, context, multi)
FieldsArgs == {NoneFields, {"name"}}
Read ==
    \E h \in DOMAIN handles, fs \in FieldsArgs, ctx \in CtxInputs, multi \in BOOLEAN :
        /\ Commit(Record_read(World, h, fs, ctx, multi).w, "read", {IF multi THEN "multi" ELSE "one"})
        /\ UNCHANGED made

\* get_record_list(obj, ids, cache, context)
IdSeqs == {<<1>>, <<1, 2>>, <<1, 2, 1>>}
NewRecordList ==
    \E ids \in IdSeqs, c \in CacheArgs, ctx \in CtxInputs :
        LET r == get_record_list(World, "partner", ids, NoneFields, c, ctx)
        IN /\ ~made
           /\ Commit(r.w, "get_record_list", {})
           /\ made' = TRUE

\* recordlist[index][name] for a scalar field
GetMember ==
    \E l \in DOMAIN lists :
        \E index \in DOMAIN lists[l].records :
            LET h == lists[l].records[index]
                r == Record_getitem(World, h, "name")
            IN /\ Commit(r.w, IF r.err = "" THEN "getitem" ELSE r.err, {})
               /\ UNCHANGED made

\* recordlist.insert(index, record)
InsertRecord ==
    \E l \in DOMAIN lists, h \in DOMAIN handles, index \in 0..MaxLen :
        /\ index <= Len(lists[l].records)
        /\ Commit(insert_record(World, l, index, h), "insert_record", {})
        /\ UNCHANGED made

\* recordlist.insert(index, id)
InsertInt ==
    \E l \in DOMAIN lists, rid \in Ids, index \in 0..MaxLen :
        /\ index <= Len(lists[l].records)
        /\ Commit(insert_int(World, l, index, rid), "insert_int", {})
        /\ UNCHANGED made

\* recordlist[index] = record
SetItem ==
    \E l \in DOMAIN lists, h \in DOMAIN handles :
        \E index \in DOMAIN lists[l].records :
            /\ Commit(setitem(World, l, index, h), "setitem", {})
            /\ UNCHANGED made

\* del recordlist[index]
DelItem ==
    \E l \in DOMAIN lists :
        \E index \in DOMAIN lists[l].records :
            /\ Commit(delitem(World, l, index), "delitem", {})
            /\ UNCHANGED made

\* recordlist.refresh()
ListRefresh ==
    \E l \in DOMAIN lists :
        /\ Commit(RecordList_refresh(World, l), "list_refresh", {})
        /\ UNCHANGED made

\* recordlist.filter(func)
Filter ==
    \E l \in DOMAIN lists, keep \in SUBSET Ids :
        LET r == filter(World, l, keep)
        IN /\ Commit(r.w, "filter", {})
           /\ UNCHANGED made

\* recordlist.copy(context, new_cache)
Copy ==
    \E l \in DOMAIN lists, ctx \in CtxInputs,
       nc \in NewCacheArgs \cup NewCacheOdd \cup {[k |-> "cache", c |-> c] : c \in DOMAIN caches} :
        LET r == copy(World, l, ctx, nc)
        IN /\ Commit(r.w, IF r.err = "" THEN "copy" ELSE r.err, {nc.k})
           /\ UNCHANGED made

\* The remote side loses a row of the partner collection.
ServerDelete ==
    \E i \in srvExists["partner"] :
        /\ srvExists' = [srvExists EXCEPT !["partner"] = @ \ {i}]
        /\ last' = IF tracing THEN [op |-> "unlink", n |-> 0, via |-> {}] ELSE last
        /\ UNCHANGED <<caches, handles, lists, srvCountry, made, tracing>>

\* The remote side gives a partner another country, or none.
ServerWrite ==
    \E i \in Ids, c \in {0} \cup Ids :
        /\ c # srvCountry[i]
        /\ srvCountry' = [srvCountry EXCEPT ![i] = c]
        /\ last' = IF tracing THEN [op |-> "write", n |-> 0, via |-> {}] ELSE last
        /\ UNCHANGED <<caches, handles, lists, srvExists, made, tracing>>

\* recordlist.existing(uniqify)
Existing ==
    \E l \in DOMAIN lists, uniqify \in BOOLEAN :
        /\ Commit(existing(World, l, uniqify).w, "existing", {})
        /\ UNCHANGED made

\* recordlist.group_by(grouper)
GroupBy ==
    \E l \in DOMAIN lists, grouper \in Groupers :
        /\ Finish(group_by(World, l, grouper), "group_by")
        /\ UNCHANGED made

\* recordlist.mapped(path)
Mapped ==
    \E l \in DOMAIN lists, path \in Paths :
        /\ lists[l].obj = "partner"
        /\ Finish(mapped(World, l, path), "mapped")
        /\ UNCHANGED made

\* recordlist.read(fields, context)
ListRead ==
    \E l \in DOMAIN lists, fs \in FieldsArgs, ctx \in CtxInputs :
        /\ Commit(RecordList_read(World, l, fs, ctx).w, "list_read", {})
        /\ UNCHANGED made

\* obj.search_records(domain, cache=cache)
SearchRecords ==
    \E domain \in SUBSET Ids, c \in CacheArgs :
        LET r == search_records(World, "partner", domain, NoneFields, NoneCtx, c, FALSE)
        IN /\ Commit(r.w, "search_records", {})
           /\ UNCHANGED made

\* The contexts callers pass to the queries of a list.
QueryCtx == CtxInputs \cup {[lang |-> "en", tz |-> "utc"]}

\* recordlist.search(domain, context=context)
ListSearch ==
    \E l \in DOMAIN lists, domain \in Domains, ctx \in QueryCtx :
        /\ Commit(RecordList_search(World, l, domain, ctx).w, "list_search", {})
        /\ UNCHANGED made

\* recordlist.search_records(domain, context=context)
ListSearchRecords ==
    \E l \in DOMAIN lists, domain \in Domains, ctx \in QueryCtx :
        /\ Commit(RecordList_search_records(World, l, domain, ctx).w,
                  "list_search_records", {})
        /\ UNCHANGED made

\* record.<name>
AttrNames == FieldNames \cup {"nosuch"}
GetAttr ==
    \E h \in DOMAIN handles, name \in AttrNames :
        /\ Finish(Record_getattr(World, h, name), "getattr")
        /\ UNCHANGED made

\* recordlist[index][name] while the remote side fails the read
GetMemberFails ==
    \E l \in DOMAIN lists, name \in FieldNames :
        \E index \in DOMAIN lists[l].records :
            /\ lists[l].obj = "partner"
            /\ NeedsRead(World, lists[l].records[index], name)
            /\ Finish(Record_getitem(Failing(World), lists[l].records[index], name),
                      "getitem")
            /\ UNCHANGED made

\* recordlist.prefetch(*fields)
PrefetchArgs == {{}, {"name"}, {"name", "country_id"}, {"image"}}
Prefetch ==
    \E l \in DOMAIN lists, fs \in PrefetchArgs :
        /\ Commit(prefetch(World, l, fs), "prefetch", {})
        /\ UNCHANGED made

\* get_record(obj, rid, cache=cache, context=context) on a store in use
RecordOnStore ==
    \E rid \in Ids, c \in DOMAIN caches, ctx \in QueryCtx :
        /\ Commit(get_record(World, "partner", rid, c, ctx).w, "get_record", DOMAIN ctx)
        /\ UNCHANGED made

\* get_record_list(obj, ids, cache=cache, context=context) on a store in use
ListOnStore ==
    \E ids \in IdSeqs, c \in DOMAIN caches, ctx \in QueryCtx :
        /\ Commit(get_record_list(World, "partner", ids, NoneFields, c, ctx).w,
                  "get_record_list", DOMAIN ctx)
        /\ UNCHANGED made

\* recordlist[index]['country_id']
GetMemberCountry ==
    \E l \in DOMAIN lists :
        \E index \in DOMAIN lists[l].records :
            /\ lists[l].obj = "partner"
            /\ CommitIn(Record_getitem(World, lists[l].records[index], "country_id").w,
                        "resolve", {}, TargetRoom)
            /\ UNCHANGED made

\* target['name'] for a record of the country collection
TargetGet ==
    \E t \in DOMAIN handles :
        /\ handles[t].obj = "country"
        /\ CommitIn(Record_getitem(World, t, "name").w, "getitem", {}, TargetRoom)
        /\ UNCHANGED made

\* Records: construction, field access, refresh.
NextRec ==
    \/ NewRecord
    \/ GetItem
    \/ Refresh

SpecRec == Init /\ [][NextRec]_vars

\* The same operations, with the history of the last operation kept.
SpecRecTraced == InitTraced /\ [][NextRec]_vars

\* Lists: construction, the sequence protocol, field access on members.
NextList ==
    \/ NewRecordList
    \/ InsertRecord
    \/ InsertInt
    \/ SetItem
    \/ DelItem
    \/ GetMember

SpecList == Init /\ [][NextList]_vars

\* Lists derived from a list, with the history kept.
NextDerive ==
    \/ NewRecordList
    \/ ServerDelete
    \/ Filter
    \/ GroupBy
    \/ Mapped
    \/ Existing

SpecDerive == InitTraced /\ [][NextDerive]_vars

\* Lists made by queries, on a store of their own or on a store passed in.
NextSearch ==
    \/ NewRecordList
    \/ ServerDelete
    \/ SearchRecords

SpecSearch == Init /\ [][NextSearch]_vars

\* Copies of a list and what is done through them, with the history kept.
NextCopy ==
    \/ NewRecordList
    \/ Copy
    \/ ListRead
    \/ GetMember

SpecCopy == InitTraced /\ [][NextCopy]_vars

\* Rereads through the members of a list, with the history kept.
NextRead ==
    \/ NewRecordList
    \/ ServerDelete
    \/ GetMember
    \/ Read

SpecRead == InitTraced /\ [][NextRead]_vars

\* Queries made through a list, with the history kept.
NextQuery ==
    \/ NewRecordList
    \/ ServerDelete
    \/ ListSearch
    \/ ListSearchRecords
    \/ ListRead

SpecQuery == InitTraced /\ [][NextQuery]_vars

\* Attribute access on records whose rows may be gone on the remote side.
NextAttr ==
    \/ NewRecord
    \/ ServerDelete
    \/ GetAttr

SpecAttr == Init /\ [][NextAttr]_vars

\* Field access on the members of a list, the reads of which may fail, with
\* the history kept.
NextFail ==
    \/ NewRecordList
    \/ ServerDelete
    \/ GetMember
    \/ GetMemberFails
    \/ ListRefresh

SpecFail == InitTraced /\ [][NextFail]_vars

\* Prefetching on a list and field access on its members, with the history
\* kept.
NextPrefetch ==
    \/ NewRecordList
    \/ Prefetch
    \/ GetMember
    \/ ListRefresh

SpecPrefetch == InitTraced /\ [][NextPrefetch]_vars

\* Records and lists made with a context on a store in use, with the
\* history kept.
NextContext ==
    \/ NewRecordList
    \/ GetMember
    \/ RecordOnStore
    \/ ListOnStore

SpecContext == InitTraced /\ [][NextContext]_vars

\* The countries of the members of a list and field access on them, with the
\* history kept.
NextTargets ==
    \/ NewRecordList
    \/ ServerWrite
    \/ GetMemberCountry
    \/ TargetGet

SpecTargets == InitTraced /\ [][NextTargets]_vars

\* recordlist[index].read(['country_id'])
MemberReread ==
    \E l \in DOMAIN lists :
        \E index \in DOMAIN lists[l].records :
            /\ CommitIn(Record_read(World, lists[l].records[index], {"country_id"},
                                    NoneCtx, FALSE).w, "read", {}, TargetRoom)
            /\ UNCHANGED made

\* recordlist[index].refresh()
MemberRefresh ==
    \E l \in DOMAIN lists :
        \E index \in DOMAIN lists[l].records :
            /\ CommitIn(refresh(World, lists[l].records[index]).w, "refresh", {},
                        TargetRoom)
            /\ UNCHANGED made

\* Field access by name on a record, with the history of the last operation
\* kept.
NextAccess ==
    \/ NewRecord
    \/ GetItem

SpecAccess == InitTraced /\ [][NextAccess]_vars

\* record['child_ids']
GetChildren ==
    \E h \in DOMAIN handles :
        /\ handles[h].obj = "partner"
        /\ Finish(Record_getitem(World, h, "child_ids"), "getitem")
        /\ UNCHANGED made

\* Records put into the lists they have resolved, and refreshed.
NextCycle ==
    \/ NewRecord
    \/ GetChildren
    \/ SetItem
    \/ Refresh

SpecCycle == Init /\ [][NextCycle]_vars

\* get_record(country, rid, cache=cache, context=context) on a store in use
CountryOnStore ==
    \E rid \in Ids, c \in DOMAIN caches, ctx \in QueryCtx :
        /\ Commit(get_record(World, "country", rid, c, ctx).w, "get_record", {})
        /\ UNCHANGED made

\* Records of two collections on one store, and the relations between them.
NextMerge ==
    \/ NewRecord
    \/ CountryOnStore
    \/ GetItem

SpecMerge == Init /\ [][NextMerge]_vars

\* Members of a list whose rows change on the remote side between accesses,
\* rereads and refreshes.
NextStale ==
    \/ NewRecordList
    \/ ServerWrite
    \/ GetMemberCountry
    \/ MemberReread
    \/ MemberRefresh

SpecStale == Init /\ [][NextStale]_vars

Next ==
    \/ NextRec \/ NextList \/ NextDerive \/ NextSearch \/ NextCopy
    \/ NextRead \/ NextQuery \/ NextAttr \/ NextFail \/ NextPrefetch \/ NextContext
    \/ NextTargets \/ NextStale \/ NextAccess \/ NextCycle \/ NextMerge

Spec == Init /\ [][Next]_vars
(***************************************************************************)
(* Properties.  A property of a handler is stated on the handler's result  *)
(* at every reachable state and for every input.                           *)
(***************************************************************************)
DeclaredFields(h) == DOMAIN columns_info[handles[h].obj]
Bucket(h) == caches[handles[h].cache][handles[h].obj]

\* The rows registered in the stores of a world.
Registered(w) ==
    {<<c, obj, i>> \in (DOMAIN w.caches) \X Colls \X Ids : i \in DOMAIN w.caches[c][obj].rows}

\* C1: a field miss issues exactly one read; it asks for exactly the ids
\* registered in the record's bucket that lack the field, and for that field
\* only, and the value of every row that comes back is in the cache afterwards.
C1_BatchedFieldMiss ==
    \A h \in DOMAIN handles : \A name \in DeclaredFields(h) :
        name \notin DOMAIN Data(World, h) =>
            LET r == Record_getitem(World, h, name)
                obj == handles[h].obj
                lacking == {i \in DOMAIN Bucket(h).rows : name \notin DOMAIN Bucket(h).rows[i]}
            IN /\ Len(r.w.reads) = 1
               /\ r.w.reads[1].obj = obj
               /\ r.w.reads[1].ids = lacking
               /\ r.w.reads[1].fields = {name}
               /\ \A i \in lacking \cap srvExists[obj] :
                    /\ name \in DOMAIN r.w.caches[handles[h].cache][obj].rows[i]
                    /\ r.w.caches[handles[h].cache][obj].rows[i][name] = srvData[obj][i][name]

\* A field access has just read a field for two or more rows in one call,
\* and two rows of one bucket hold a field now.
C1_Witness ==
    /\ last.op = "getitem"
    /\ last.n >= 2
    /\ \E c \in DOMAIN caches : \E obj \in Colls : \E f \in DOMAIN columns_info[obj] :
         Cardinality({i \in DOMAIN caches[c][obj].rows : f \in DOMAIN caches[c][obj].rows[i]}) >= 2

\* The records of a world that stand on a row.
OnRow(w, c, obj, i) ==
    {h \in DOMAIN w.handles :
        w.handles[h].cache = c /\ w.handles[h].obj = obj /\ w.handles[h].id = i}

\* The cells <<cache, collection, id, field>> of a world that hold a value.
Cells(w) ==
    {cell \in (DOMAIN w.caches) \X Colls \X Ids \X FieldNames :
        /\ cell[3] \in DOMAIN w.caches[cell[1]][cell[2]].rows
        /\ cell[4] \in DOMAIN w.caches[cell[1]][cell[2]].rows[cell[3]]}

\* Every cell that holds a value in this state holds one in the world w.
KeepsCells(w) ==
    \A c \in DOMAIN caches : \A obj \in Colls : \A i \in DOMAIN caches[c][obj].rows :
        /\ i \in DOMAIN w.caches[c][obj].rows
        /\ (DOMAIN caches[c][obj].rows[i]) \cap FieldNames \subseteq DOMAIN w.caches[c][obj].rows[i]

\* P holds of every world the operations other than refresh and reread
\* leave behind when applied in this state.
ForQuietOutcomes(P(_)) ==
    /\ \A h \in DOMAIN handles : \A n \in FieldNames : P(Record_getitem(World, h, n).w)
    /\ \A l \in DOMAIN lists :
         /\ \A i \in DOMAIN lists[l].records :
              /\ P(delitem(World, l, i))
              /\ \A h \in DOMAIN handles : P(setitem(World, l, i, h))
         /\ \A i \in Ids : P(insert_int(World, l, 0, i))
         /\ \A h \in DOMAIN handles : P(insert_record(World, l, 0, h))
         /\ \A keep \in SUBSET Ids : P(filter(World, l, keep).w)
         /\ \A ctx \in CtxInputs : \A nc \in NewCacheArgs : P(copy(World, l, ctx, nc).w)

\* The world an operation has left behind, as the next operation finds it.
Settled(w) == [w EXCEPT !.reads = <<>>]

\* C2 as stated: after a successful fetch of a field, an access of that field
\* on any row of the same bucket, through any record sharing the store,
\* issues no remote read.
C2_NoReadOnAnyRowAfterFetch ==
    \A h \in DOMAIN handles : \A name \in DeclaredFields(h) :
        LET r == Record_getitem(World, h, name)
        IN (r.w.reads # <<>> /\ r.err = "") =>
              \A h2 \in DOMAIN r.w.handles :
                 (r.w.handles[h2].cache = handles[h].cache
                     /\ r.w.handles[h2].obj = handles[h].obj) =>
                    Record_getitem(Settled(r.w), h2, name).w.reads = <<>>

\* C2, amended: after a successful fetch of a field, every row the fetch
\* returned a value for holds the field; a cell that holds a value keeps it
\* through every operation other than refresh and reread; and an access of a
\* held field, through any record on that row, issues no remote read.
C2_NoReadOnFetchedRow ==
    /\ \A h \in DOMAIN handles : \A name \in DeclaredFields(h) :
         LET r == Record_getitem(World, h, name)
         IN (r.w.reads # <<>> /\ r.err = "") =>
               \A i \in r.w.reads[1].ids \cap srvExists[handles[h].obj] :
                  /\ i \in DOMAIN r.w.caches[handles[h].cache][handles[h].obj].rows
                  /\ name \in DOMAIN r.w.caches[handles[h].cache][handles[h].obj].rows[i]
    /\ ForQuietOutcomes(KeepsCells)
    /\ \A h \in DOMAIN handles : \A name \in CachedFields(World, h) :
         LET r == Record_getitem(World, h, name)
         IN r.w.reads = <<>> /\ r.err = ""

\* A fetch has filled a field of a row on which two records stand, and the
\* access of the field through either record is served from the cache.
C2_Witness ==
    \E cell \in Cells(World) : \E h1, h2 \in OnRow(World, cell[1], cell[2], cell[3]) :
        /\ h1 # h2
        /\ cell[4] \in DeclaredFields(h1)
        /\ Record_getitem(World, h1, cell[4]).w.reads = <<>>
        /\ Record_getitem(World, h2, cell[4]).w.reads = <<>>

\* C3: records of the same collection and row id are equal and have equal
\* hashes, and every record equals the integer that is its row id.
C3_SameRowEqual ==
    \A h1, h2 \in DOMAIN handles :
        /\ (handles[h1].obj = handles[h2].obj /\ handles[h1].id = handles[h2].id) =>
              /\ Record_eq(World, h1, h2)
              /\ Record_hash(World, h1) = Record_hash(World, h2)
        /\ Record_eq_int(World, h1, handles[h1].id)

\* Two distinct records stand on the same row of the same collection.
C3_Witness ==
    \E h1, h2 \in DOMAIN handles :
        h1 # h2 /\ handles[h1].obj = handles[h2].obj /\ handles[h1].id = handles[h2].id

\* C4: two records are equal only if collection and row id both match, so
\* equal records have equal hashes, and a list never contains a record of
\* another collection.
C4_EqualIffSameRow ==
    /\ \A h1, h2 \in DOMAIN handles :
         /\ Record_eq(World, h1, h2) <=>
               (handles[h1].obj = handles[h2].obj /\ handles[h1].id = handles[h2].id)
         /\ Record_eq(World, h1, h2) => Record_hash(World, h1) = Record_hash(World, h2)
    /\ \A l \in DOMAIN lists : \A h \in DOMAIN handles :
         List_contains(World, l, h) =>
            \E i \in DOMAIN lists[l].records :
                /\ handles[lists[l].records[i]].obj = handles[h].obj
                /\ handles[lists[l].records[i]].id = handles[h].id

\* The records a record has resolved: a many2one target, the members of a
\* resolved list.
Resolved(h) == TargetsOf(World, h)

\* C5: refresh of a record clears the cached fields of every record it has
\* resolved through a relation (the many2one target, every member of a
\* resolved list), so the next access of any field on such a record issues
\* a remote read that asks for its row.
C5_RefreshClearsResolved ==
    \A h \in DOMAIN handles :
        LET w2 == refresh(World, h).w
        IN \A t \in Resolved(h) :
            /\ CachedFields(w2, t) = {}
            /\ \A f \in DeclaredFields(t) :
                 LET r == Record_getitem(w2, t, f)
                 IN /\ Len(r.w.reads) = 1
                    /\ r.w.reads[1].obj = handles[t].obj
                    /\ handles[t].id \in r.w.reads[1].ids

\* A refresh has just reached, through the relations of the refreshed
\* record, a many2one target and a list member that both had cached fields,
\* and they have none now.
C5_Witness ==
    /\ last.op = "refresh"
    /\ last.via = {"country", "partner"}
    /\ \A h \in DOMAIN handles : CachedFields(World, h) = {}

\* C6: refresh of a record leaves in its row only the id, keeps every
\* registered id registered, leaves the rows of the records it does not
\* reach through resolved relations as they were, leaves every bucket's
\* context as it was, and returns the record itself.
RowOf(h) == <<handles[h].cache, handles[h].obj, handles[h].id>>
C6_RefreshFrame ==
    \A h \in DOMAIN handles :
        LET r == refresh(World, h)
            reached == {RowOf(t) : t \in Reach(World, h)}
        IN /\ Data(r.w, h) = ("id" :> RawId(handles[h].id))
           /\ Registered(r.w) = Registered(World)
           /\ \A row \in Registered(World) \ reached :
                r.w.caches[row[1]][row[2]].rows[row[3]] = caches[row[1]][row[2]].rows[row[3]]
           /\ \A c \in DOMAIN caches : \A obj \in Colls :
                r.w.caches[c][obj].ctx = caches[c][obj].ctx
           /\ r.ret = RetRec(h)

\* A refresh has just emptied the row of a record while another row keeps
\* its cached fields and a bucket carries a context.
C6_Witness ==
    /\ last.op = "refresh"
    /\ \E h \in DOMAIN handles : Data(World, h) = ("id" :> RawId(handles[h].id))
    /\ \E row \in Registered(World) :
         DOMAIN caches[row[1]][row[2]].rows[row[3]] \cap DOMAIN columns_info[row[2]] # {}
    /\ \E c \in DOMAIN caches : \E obj \in Colls : caches[c][obj].ctx # NoneCtx

\* Every record of a world stands on a registered row of its own store.
AllRegistered(w) ==
    \A h \in DOMAIN w.handles :
        w.handles[h].id \in DOMAIN w.caches[w.handles[h].cache][w.handles[h].obj].rows

\* Every row registered in this state is registered in the world w.
KeepsRegistered(w) ==
    \A c \in DOMAIN caches : \A obj \in Colls :
        DOMAIN caches[c][obj].rows \subseteq DOMAIN w.caches[c][obj].rows

\* The world w keeps every record and every registered row in place.
StaysRegistered(w) == AllRegistered(w) /\ KeepsRegistered(w)

\* P holds of every world the operations leave behind when applied in this
\* state.
ForOutcomes(P(_)) ==
    /\ ForQuietOutcomes(P)
    /\ \A h \in DOMAIN handles :
         /\ P(refresh(World, h).w)
         /\ \A fs \in FieldsArgs : \A m \in BOOLEAN :
              P(Record_read(World, h, fs, NoneCtx, m).w)
    /\ \A l \in DOMAIN lists : P(RecordList_refresh(World, l))

\* C7: the row id of every record is registered in the bucket of its
\* collection in its own store, and no operation (field access, refresh,
\* reread, list deletion, list item replacement, insert, filter, copy) takes
\* a registered id out of a bucket.
C7_RecordsStayRegistered ==
    /\ AllRegistered(World)
    /\ ForOutcomes(StaysRegistered)

\* A record stands on a registered row for which nothing has been read.
C7_Witness ==
    \E h \in DOMAIN handles :
        /\ handles[h].id \in DOMAIN Bucket(h).rows
        /\ Bucket(h).rows[handles[h].id] = EmptyMap

\* C8: the id of every member of a list is registered in the bucket of the
\* list's own store.
C8_MembersRegisteredInListStore ==
    \A l \in DOMAIN lists : \A i \in DOMAIN lists[l].records :
        handles[lists[l].records[i]].id \in DOMAIN caches[lists[l].cache][lists[l].obj].rows

\* C9: every member of a list refers to the store of the list.
C9_MembersShareListStore ==
    \A l \in DOMAIN lists : \A i \in DOMAIN lists[l].records :
        handles[lists[l].records[i]].cache = lists[l].cache

\* C10 as stated: insert of an integer id performs a remote read, and the
\* record it places in the list has field data cached.
C10_InsertIntReads ==
    \A l \in DOMAIN lists : \A rid \in Ids : \A index \in 0..Len(lists[l].records) :
        LET w2 == insert_int(World, l, index, rid)
        IN /\ w2.reads # <<>>
           /\ CachedFields(w2, w2.lists[l].records[index + 1]) # {}

\* C10, amended: insert of an integer id issues no remote read and places at
\* the index a new record on that id with no field data cached; insert of a
\* record places that record at the index, issues no remote read and leaves
\* the stores as they were.
C10_InsertIsLazy ==
    \A l \in DOMAIN lists : \A index \in 0..Len(lists[l].records) :
        /\ \A rid \in Ids :
             LET w2 == insert_int(World, l, index, rid)
                 h == w2.lists[l].records[index + 1]
             IN /\ w2.reads = <<>>
                /\ h \notin DOMAIN handles
                /\ w2.handles[h].id = rid
                /\ w2.handles[h].obj = lists[l].obj
                /\ CachedFields(w2, h) = {}
                /\ Len(w2.lists[l].records) = Len(lists[l].records) + 1
        /\ \A h \in DOMAIN handles :
             LET w2 == insert_record(World, l, index, h)
             IN /\ w2.reads = <<>>
                /\ w2.lists[l].records[index + 1] = h
                /\ w2.caches = caches

\* An integer id has been inserted: the list holds a record that insert made
\* for it, in a store of its own, with nothing read for its row.
C10_Witness ==
    \E l \in DOMAIN lists : \E i \in DOMAIN lists[l].records :
        LET h == lists[l].records[i]
        IN /\ handles[h].cache # lists[l].cache
           /\ Data(World, h) = EmptyMap
           /\ h \notin {lists[l].records[j] : j \in (DOMAIN lists[l].records) \ {i}}

\* C11: a store passed to search_records or read_records backs the handle or
\* list that comes back, for empty and non-empty results alike; a new store
\* is made only when none is passed.
C11_PassedStoreBacksResult ==
    /\ \A c \in DOMAIN caches : \A domain \in SUBSET Ids :
         LET r == search_records(World, "partner", domain, NoneFields, NoneCtx, c, FALSE)
         IN /\ r.w.lists[r.ret.i].cache = c
            /\ \A i \in DOMAIN r.w.lists[r.ret.i].records :
                 r.w.handles[r.w.lists[r.ret.i].records[i]].cache = c
    /\ \A c \in DOMAIN caches : \A ids \in IdSeqs :
         LET r == read_records_list(World, "partner", ids, NoneFields, NoneCtx, c)
         IN r.w.lists[r.l].cache = c
    /\ \A c \in DOMAIN caches : \A rid \in Ids :
         LET r == read_records_int(World, "partner", rid, NoneFields, NoneCtx, c)
         IN r.w.handles[r.h].cache = c
    /\ \A domain \in SUBSET Ids :
         LET r == search_records(World, "partner", domain, NoneFields, NoneCtx, 0, FALSE)
         IN r.w.lists[r.ret.i].cache \notin DOMAIN caches

\* The k-th smallest member of a set of positions.
Kth(P, k) == CHOOSE p \in P : Cardinality({q \in P : q <= p}) = k

\* The sequence q holds exactly the elements of src at the positions P, in
\* the order of the positions.
IsSubsequenceAt(q, src, P) ==
    /\ Len(q) = Cardinality(P)
    /\ \A k \in 1..Len(q) : q[k] = src[Kth(P, k)]

\* The list l of the world w is a list of the store and collection of the
\* list src of this state, made by the operation, whose members stand in
\* that store.
NewListOnStoreOf(w, l, src) ==
    /\ l \notin DOMAIN lists
    /\ w.lists[l].obj = lists[src].obj
    /\ w.lists[l].cache = lists[src].cache

\* C12: filter returns a new list whose ids are the ids of the members the
\* predicate holds for, in the order of the source and as often as in the
\* source, on the store of the source; the source is left as it was.
C12_FilterKeepsOrderAndStore ==
    \A l \in DOMAIN lists : \A keep \in SUBSET Ids :
        LET r == filter(World, l, keep)
            ids == ListIds(World, l)
        IN /\ NewListOnStoreOf(r.w, r.l, l)
           /\ IsSubsequenceAt(ListIds(r.w, r.l), ids, {i \in DOMAIN ids : ids[i] \in keep})
           /\ \A i \in DOMAIN r.w.lists[r.l].records :
                r.w.handles[r.w.lists[r.l].records[i]].cache = lists[l].cache
           /\ r.w.lists[l] = lists[l]
           /\ ListIds(r.w, l) = ids

\* A filter has just made, on the store of its source, a list of some but
\* not all of the source's members.
C12_Witness ==
    /\ last.op = "filter"
    /\ Len(lists) = 2
    /\ lists[2].cache = lists[1].cache
    /\ ListIds(World, 2) # <<>>
    /\ Len(ListIds(World, 2)) < Len(ListIds(World, 1))

\* The lengths of the lists of the entries of a dictionary, added up.
RECURSIVE SumLens(_, _)
SumLens(w, res) ==
    IF res = <<>> THEN 0
    ELSE Len(w.lists[Head(res).l].records) + SumLens(w, Tail(res))

\* C13: group_by returns a mapping with one entry per key; the group of a key
\* holds the members of the source whose key it is, once per occurrence and
\* in the order of the source; every group is a new list on the store of the
\* source, the sizes add up to the length of the source, and the source is
\* left as it was.
C13_GroupByPartitions ==
    \A l \in DOMAIN lists : \A grouper \in Groupers :
        LET r == group_by(World, l, grouper)
            recs == lists[l].records
            keyOf(h) == GroupKey(r.w, h, grouper).ret
        IN r.err = "" =>
            /\ \A e1, e2 \in DOMAIN r.ret :
                 e1 # e2 => /\ ~KeyEq(r.w, r.ret[e1].key, r.ret[e2].key)
                            /\ r.ret[e1].l # r.ret[e2].l
            /\ \A i \in DOMAIN recs :
                 \E e \in DOMAIN r.ret : KeyEq(r.w, r.ret[e].key, keyOf(recs[i]))
            /\ \A e \in DOMAIN r.ret :
                 /\ NewListOnStoreOf(r.w, r.ret[e].l, l)
                 /\ IsSubsequenceAt(r.w.lists[r.ret[e].l].records, recs,
                                     {i \in DOMAIN recs : KeyEq(r.w, r.ret[e].key, keyOf(recs[i]))})
            /\ SumLens(r.w, r.ret) = Len(recs)
            /\ r.w.lists[l].records = recs

\* A grouping has just made a group that holds two members of its source,
\* the very records of the source, in the order of the source.
C13_Witness ==
    /\ last.op = "group_by"
    /\ Len(lists) = 2
    /\ Len(lists[1].records) >= 2
    /\ lists[2].records = lists[1].records
    /\ lists[2].cache = lists[1].cache

\* No id occurs twice in the sequence.
NoRepeat(q) == \A i, j \in DOMAIN q : q[i] = q[j] => i = j

\* C14: mapped along a path whose terminal field is a relation returns a
\* list on the target collection, on the store of the source, that holds
\* each target row at most once.
C14_MappedRelationIsSet ==
    \A l \in DOMAIN lists : \A path \in {<<"country_id">>, <<"child_ids">>} :
        lists[l].obj = "partner" =>
            LET r == mapped(World, l, path)
            IN r.err = "" =>
                /\ r.ret.k = "list"
                /\ r.w.lists[r.ret.i].obj = resolve_field_path("partner", path)
                /\ r.w.lists[r.ret.i].cache = lists[l].cache
                /\ NoRepeat(ListIds(r.w, r.ret.i))

\* The rows of the partner collection whose walk along the path meets no
\* falsy intermediate value, and the terminal value of such a row.
WalksThrough(id, path) ==
    Len(path) = 1 \/ Truthy(srvData["partner"][id][path[1]])
TerminalValue(id, path) ==
    IF Len(path) = 1 THEN srvData["partner"][id][path[1]]
    ELSE srvData[columns_info["partner"][path[1]].relation]
                [srvData["partner"][id][path[1]].id][path[2]]

\* C15: mapped along a path whose terminal field is scalar returns a plain
\* sequence with the terminal value of every member whose intermediate
\* values are all truthy, in the order of the members, repeats included.
C15_MappedScalarKeepsRepeats ==
    \A l \in DOMAIN lists : \A path \in {<<"name">>, <<"country_id", "name">>} :
        lists[l].obj = "partner" =>
            LET r == mapped(World, l, path)
                ids == ListIds(World, l)
                P == {i \in DOMAIN ids : WalksThrough(ids[i], path)}
            IN r.err = "" =>
                /\ r.ret.k = "seq"
                /\ Len(r.ret.vals) = Cardinality(P)
                /\ \A k \in 1..Len(r.ret.vals) :
                     r.ret.vals[k] = RetRaw(TerminalValue(ids[Kth(P, k)], path))

\* The copy r of the list l is a new list with the ids of l on the store c.
CopyOn(r, l, c) ==
    /\ r.err = ""
    /\ r.l.k = "list"
    /\ r.l.i \notin DOMAIN lists
    /\ r.w.lists[r.l.i].cache = c
    /\ ListIds(r.w, r.l.i) = ListIds(World, l)

\* The copy r raised the invalid-argument error and made nothing.
CopyRefused(r) == r.err = "ValueError" /\ r.l = RetNone /\ r.w = World

\* C16 as stated: copy uses the store of the source for False, a new store
\* for True, the given store for a store, and raises for every other value,
\* None and 0 included.
C16_OnlyFalseSharesStore ==
    \A l \in DOMAIN lists : \A ctx \in CtxInputs :
        /\ CopyOn(copy(World, l, ctx, [k |-> "bool", b |-> FALSE]), l, lists[l].cache)
        /\ LET r == copy(World, l, ctx, [k |-> "bool", b |-> TRUE])
           IN CopyOn(r, l, Len(caches) + 1)
        /\ \A c \in DOMAIN caches : CopyOn(copy(World, l, ctx, [k |-> "cache", c |-> c]), l, c)
        /\ \A nc \in NewCacheOdd \cup {[k |-> "none"]} : CopyRefused(copy(World, l, ctx, nc))

\* C16, amended: copy uses the store of the source for every falsy value
\* (False, None, 0, the empty string), a new store for True, the given store
\* for a store, and raises, making nothing, for every other value.
C16_FalsySharesStore ==
    \A l \in DOMAIN lists : \A ctx \in CtxInputs :
        /\ \A nc \in {[k |-> "bool", b |-> FALSE], [k |-> "none"],
                       [k |-> "int", n |-> 0], [k |-> "str", s |-> ""]} :
             CopyOn(copy(World, l, ctx, nc), l, lists[l].cache)
        /\ LET r == copy(World, l, ctx, [k |-> "bool", b |-> TRUE])
           IN CopyOn(r, l, Len(caches) + 1) /\ r.w.lists[r.l.i].cache \notin DOMAIN caches
        /\ \A c \in DOMAIN caches : CopyOn(copy(World, l, ctx, [k |-> "cache", c |-> c]), l, c)
        /\ \A nc \in {[k |-> "int", n |-> 1], [k |-> "str", s |-> "yes"]} :
             CopyRefused(copy(World, l, ctx, nc))

\* A copy with new_cache=None has just made a second list with the ids of
\* the first on the store of the first.
C16_Witness ==
    /\ last.op = "copy"
    /\ last.via = {"none"}
    /\ Len(lists) = 2
    /\ lists[2].cache = lists[1].cache
    /\ lists[2].records # <<>>
    /\ ListIds(World, 2) = ListIds(World, 1)

\* The stores cs are in the world w2 what they are in the world w1.
SameStores(w1, w2, cs) == \A c \in cs : w2.caches[c] = w1.caches[c]

\* P holds of every world that a fetch, a refresh, a reread or a context
\* update done through the list l leaves behind when applied in the world w.
ForWorkThrough(w, l, P(_)) ==
    /\ \A i \in DOMAIN w.lists[l].records :
         LET h == w.lists[l].records[i]
         IN /\ \A n \in FieldNames : P(Record_getitem(w, h, n).w)
            /\ P(refresh(w, h).w)
            /\ \A fs \in FieldsArgs : \A m \in BOOLEAN : P(Record_read(w, h, fs, NoneCtx, m).w)
    /\ P(RecordList_refresh(w, l))
    /\ \A ctx \in CtxInputs : P(copy(w, l, ctx, [k |-> "bool", b |-> FALSE]).w)

\* C17: copy with new_cache=True returns a list with the ids of the source,
\* in their order, on a new store; after it, a fetch, a refresh, a reread or
\* a context update done through the copy leaves every other store as it
\* was, and one done through the source leaves the store of the copy as it
\* was.
C17_CopyOnNewStoreIsIsolated ==
    \A l \in DOMAIN lists : \A ctx \in CtxInputs :
        LET r == copy(World, l, ctx, [k |-> "bool", b |-> TRUE])
            w1 == Settled(r.w)
            c2 == Len(caches) + 1
            KeepsOld(w2) == SameStores(w1, w2, DOMAIN caches)
            KeepsNew(w2) == SameStores(w1, w2, {c2})
        IN /\ CopyOn(r, l, c2)
           /\ c2 \notin DOMAIN caches
           /\ \A i \in DOMAIN r.w.lists[r.l.i].records :
                r.w.handles[r.w.lists[r.l.i].records[i]].cache = c2
           /\ ForWorkThrough(w1, r.l.i, KeepsOld)
           /\ ForWorkThrough(w1, l, KeepsNew)

\* A field has just been fetched through a copy on a store of its own: the
\* row holds the field in the store of the copy and nothing in the store of
\* the source.
C17_Witness ==
    /\ last.op = "getitem"
    /\ last.n >= 1
    /\ Len(lists) = 2
    /\ lists[2].cache # lists[1].cache
    /\ ListIds(World, 2) = ListIds(World, 1)
    /\ \E i \in DOMAIN lists[1].records :
         LET id == ListIds(World, 1)[i]
         IN /\ "name" \in DOMAIN caches[lists[2].cache]["partner"].rows[id]
            /\ caches[lists[1].cache]["partner"].rows[id] = EmptyMap

\* RecordList.context: the context of the bucket of the list
ListContext(w, l) == w.caches[w.lists[l].cache][w.lists[l].obj].ctx

\* C18: copy with a context leaves the source as it was: its ids, their
\* order and its context, also when the copy shares the store of the source.
C18_CopyLeavesSourceContext ==
    \A l \in DOMAIN lists : \A ctx \in CtxInputs : \A b \in BOOLEAN :
        LET r == copy(World, l, ctx, [k |-> "bool", b |-> b])
        IN /\ r.w.lists[l].records = lists[l].records
           /\ ListIds(r.w, l) = ListIds(World, l)
           /\ ListContext(r.w, l) = ListContext(World, l)

\* C19: existing returns a new list on the store of the source whose ids are
\* the ids of the source that exist on the remote side, in the order of the
\* source: each at its first position when uniqify is set, each as often as
\* in the source when it is not; the source is left as it was.
C19_ExistingKeepsLiveIds ==
    \A l \in DOMAIN lists : \A uniqify \in BOOLEAN :
        LET r == existing(World, l, uniqify)
            ids == ListIds(World, l)
            live == {i \in DOMAIN ids : ids[i] \in srvExists[lists[l].obj]}
            first == {i \in live : \A j \in 1..(i - 1) : ids[j] # ids[i]}
        IN /\ NewListOnStoreOf(r.w, r.l, l)
           /\ IsSubsequenceAt(ListIds(r.w, r.l), ids, IF uniqify THEN first ELSE live)
           /\ r.w.lists[l] = lists[l]

\* A row of the source has been deleted on the remote side, and existing has
\* just made a list of the remaining ids of the source.
C19_Witness ==
    /\ last.op = "existing"
    /\ Len(lists) = 2
    /\ lists[2].cache = lists[1].cache
    /\ \E i \in DOMAIN lists[1].records : ListIds(World, 1)[i] \notin srvExists["partner"]
    /\ ListIds(World, 2) # <<>>
    /\ ListIds(World, 2) = SelectSeq(ListIds(World, 1), LAMBDA x : x \in srvExists["partner"])

\* C20: RecordList.read issues one remote read for the ids of the list and
\* leaves every store as it was, so a field a member lacked before the call
\* is still read from the remote side on its next access; Record.read writes
\* the fields of the rows it gets into the row of the record.
C20_ListReadLeavesStores ==
    /\ \A l \in DOMAIN lists : \A fs \in FieldsArgs : \A ctx \in CtxInputs :
         LET r == RecordList_read(World, l, fs, ctx)
         IN /\ Len(r.w.reads) = 1
            /\ r.w.reads[1].ids = {ListIds(World, l)[i] : i \in DOMAIN lists[l].records}
            /\ r.w.reads[1].fields = fs
            /\ r.w.caches = caches
            /\ r.w.handles = handles
            /\ r.w.lists = lists
            /\ \A i \in DOMAIN lists[l].records :
                 LET h == lists[l].records[i]
                 IN \A name \in DeclaredFields(h) :
                      name \notin DOMAIN Data(World, h) =>
                          Record_getitem(Settled(r.w), h, name).w.reads # <<>>
    /\ \A h \in DOMAIN handles : \A fs \in FieldsArgs : \A m \in BOOLEAN :
         LET r == Record_read(World, h, fs, NoneCtx, m)
             obj == handles[h].obj
             got == IF fs = NoneFields THEN DOMAIN columns_info[obj] ELSE fs
         IN handles[h].id \in srvExists[obj] =>
              \A f \in got :
                 /\ f \in DOMAIN Data(r.w, h)
                 /\ Data(r.w, h)[f] = srvData[obj][handles[h].id][f]

\* A list has just read its rows from the remote side, and a member of the
\* list still has nothing in its row.
C20_Witness ==
    /\ last.op = "list_read"
    /\ last.n >= 1
    /\ \E l \in DOMAIN lists : \E i \in DOMAIN lists[l].records :
         Data(World, lists[l].records[i]) = EmptyMap

\* C21: Record.read issues one remote read whatever the row holds: for the id
\* of the record when multi is unset, for every id registered in the bucket
\* of the record when it is set, with the fields asked for; every row the
\* remote side returns is merged into the row of that id in the bucket and
\* every other row of the bucket, the context of the bucket and every other
\* store are left as they were; the value returned is the row just read for
\* the record, and the empty mapping when none was returned for it.
C21_RereadReadsAndMerges ==
    \A h \in DOMAIN handles : \A fs \in FieldsArgs : \A ctx \in CtxInputs : \A m \in BOOLEAN :
        LET r == Record_read(World, h, fs, ctx, m)
            hd == handles[h]
            old == caches[hd.cache][hd.obj]
            new == r.w.caches[hd.cache][hd.obj]
            asked == IF m THEN DOMAIN old.rows ELSE {hd.id}
            got == asked \cap srvExists[hd.obj]
            names == IF fs = NoneFields THEN DOMAIN columns_info[hd.obj] ELSE fs
            fresh(i) == [f \in names \cup {"id"} |->
                            IF f = "id" THEN RawId(i) ELSE srvData[hd.obj][i][f]]
        IN /\ Len(r.w.reads) = 1
           /\ r.w.reads[1].obj = hd.obj
           /\ r.w.reads[1].ids = asked
           /\ r.w.reads[1].fields = fs
           /\ DOMAIN new.rows = DOMAIN old.rows
           /\ \A i \in got : new.rows[i] = MapMerge(old.rows[i], fresh(i))
           /\ \A i \in DOMAIN old.rows \ got : new.rows[i] = old.rows[i]
           /\ new.ctx = old.ctx
           /\ \A c \in DOMAIN caches : \A o \in Colls :
                 (c # hd.cache \/ o # hd.obj) => r.w.caches[c][o] = caches[c][o]
           /\ r.ret = IF hd.id \in srvExists[hd.obj] THEN fresh(hd.id) ELSE EmptyMap

\* A reread with multi set has just asked for two rows, through a record
\* whose row held the field already, and the row of the other id holds the
\* field now.
C21_Witness ==
    /\ last.op = "read"
    /\ last.via = {"multi"}
    /\ last.n = 2
    /\ \E h \in DOMAIN handles : \E t \in DOMAIN handles :
         /\ handles[t].cache = handles[h].cache
         /\ handles[t].id # handles[h].id
         /\ "name" \in DOMAIN Data(World, h)
         /\ "name" \in DOMAIN Data(World, t)

\* The context a query of a list is to pass: the context of the list, the
\* keys of the caller's context over it.
PassedContext(l, ctx) ==
    LET own == caches[lists[l].cache][lists[l].obj].ctx
    IN IF ctx = NoneCtx THEN own
       ELSE [k \in (IF own = NoneCtx THEN {} ELSE DOMAIN own) \cup DOMAIN ctx |->
                IF k \in DOMAIN ctx THEN ctx[k] ELSE own[k]]

\* C22: search and search_records of a list pass a domain whose first term is
\* ('id', 'in', the ids of the list) and whose other terms are the caller's
\* domain in order, read asks for the ids of the list, and all three pass
\* the context of the list with the caller's keys over it; what search
\* returns are ids of the list; the list, its records and its store, the
\* context of its bucket included, are left as they were.
C22_QueriesInjectIdsAndContext ==
    \A l \in DOMAIN lists : \A ctx \in QueryCtx :
        /\ \A domain \in Domains :
             LET s == RecordList_search(World, l, domain, ctx)
                 r == RecordList_search_records(World, l, domain, ctx)
             IN /\ s.call.domain = <<IdIn(ListIds(World, l))>> \o domain
                /\ s.call.ctx = PassedContext(l, ctx)
                /\ s.w = World
                /\ \A k \in DOMAIN s.ret : List_contains_int(World, l, s.ret[k])
                /\ r.call.domain = <<IdIn(ListIds(World, l))>> \o domain
                /\ r.call.ctx = PassedContext(l, ctx)
                /\ r.w.lists[l] = lists[l]
                /\ \A c \in DOMAIN caches : r.w.caches[c] = caches[c]
                /\ \A h \in DOMAIN handles : r.w.handles[h] = handles[h]
        /\ \A fs \in FieldsArgs :
             LET r == RecordList_read(World, l, fs, ctx)
             IN /\ r.w.reads[1].ids = {ListIds(World, l)[i] : i \in DOMAIN lists[l].records}
                /\ r.w.reads[1].ctx = PassedContext(l, ctx)
                /\ r.w.caches = caches

\* A list whose context sets lang has been searched with a context that
\* sets lang to another value: the list found is on a store of its own
\* whose bucket has the caller's lang, and the bucket of the list has its own.
C22_Witness ==
    /\ last.op = "list_search_records"
    /\ Len(lists) = 2
    /\ lists[2].cache # lists[1].cache
    /\ caches[lists[1].cache]["partner"].ctx = [lang |-> "fr"]
    /\ caches[lists[2].cache]["partner"].ctx = [lang |-> "en", tz |-> "utc"]
    /\ lists[2].records # <<>>

\* Names client code may ask for that no collection declares.
AskedNames == FieldNames \cup {"nosuch"}

\* C23: record[name] for a name that is neither 'id' nor a declared field of
\* the collection of the record raises KeyError, issues no remote read and
\* leaves the stores, the records and the lists as they were.
C23_UnknownFieldRaises ==
    \A h \in DOMAIN handles : \A name \in AskedNames \ DeclaredFields(h) :
        LET r == Record_getitem(World, h, name)
        IN /\ r.err = "KeyError"
           /\ r.w.reads = <<>>
           /\ r.w = World

\* A record of the country collection, resolved from a partner, has just
\* been asked for a field only partners declare.
C23_Witness ==
    /\ last.op = "KeyError"
    /\ last.n = 0
    /\ \E h \in DOMAIN handles :
         /\ handles[h].obj = "country"
         /\ DeclaredFields(h) # FieldNames
         /\ Data(World, h) = EmptyMap

\* C24: record.<name> gives a remote method bound to the id of the record
\* when the name is no declared field; for a declared field it gives what
\* record[name] gives, the exception it raises included.
C24_AttrFallsBackOnlyForMethods ==
    \A h \in DOMAIN handles : \A name \in AttrNames :
        LET r == Record_getattr(World, h, name)
            item == Record_getitem(World, h, name)
        IN IF name \in DeclaredFields(h)
           THEN /\ r.err = item.err
                /\ r.ret = item.ret
           ELSE /\ r.err = ""
                /\ r.ret = RetMethod(name, handles[h].id)

\* The world after a call has ended: no read recorded, the remote side up.
Recovered(w) == [w EXCEPT !.reads = <<>>, !.fail = FALSE]

\* C25: when the read of a field miss fails, record[name] raises the failure
\* after that one read, the stores, the records and the lists are as they
\* were, so no row that lacked the field holds it, and the next record[name]
\* issues the read again, for the same ids.
C25_FailedReadPropagates ==
    \A h \in DOMAIN handles : \A name \in DeclaredFields(h) :
        NeedsRead(World, h, name) =>
            LET r == Record_getitem(Failing(World), h, name)
                again == Record_getitem(Recovered(r.w), h, name)
                b == caches[handles[h].cache][handles[h].obj]
            IN /\ r.err = "RemoteError"
               /\ Len(r.w.reads) = 1
               /\ r.w.reads[1].ids = get_ids_to_read(World, handles[h].cache, handles[h].obj, name)
               /\ \A i \in DOMAIN b.rows :
                     name \notin DOMAIN b.rows[i] =>
                        name \notin DOMAIN r.w.caches[handles[h].cache][handles[h].obj].rows[i]
               /\ r.w.caches = caches
               /\ r.w.handles = handles
               /\ r.w.lists = lists
               /\ Len(again.w.reads) = 1
               /\ again.w.reads[1] = r.w.reads[1]

\* A field access on a member of a list has just failed with the read it
\* made for two rows, and no row of the bucket holds that field.
C25_Witness ==
    /\ last.op = "RemoteError"
    /\ last.n = 2
    /\ \E l \in DOMAIN lists :
         /\ Cardinality(DOMAIN caches[lists[l].cache]["partner"].rows) = 2
         /\ \A i \in DOMAIN caches[lists[l].cache]["partner"].rows :
              "name" \notin DOMAIN caches[lists[l].cache]["partner"].rows[i]

\* The names a prefetch is about: the names given, and with none given the
\* declared fields of the collection that are neither binary nor computed.
PrefetchedNames(obj, fs) ==
    IF fs # {} THEN fs
    ELSE IF obj = "partner" THEN {"name", "country_id", "child_ids"} ELSE {"name"}

Overridden(own, ctx) ==
    IF ctx = NoneCtx THEN own
    ELSE [k \in (IF own = NoneCtx THEN {} ELSE DOMAIN own) \cup DOMAIN ctx |->
             IF k \in DOMAIN ctx THEN ctx[k] ELSE own[k]]

\* What C27 asks of the world w a constructor leaves, given a context ctx on
\* the bucket of collection obj in store c: the bucket has its former
\* context with the keys of ctx over it, which is the context of every
\* record and list on the bucket and the one passed by the read of a later
\* miss; no read was issued; every field a row held is held with the same
\* value, and an access of a field the record held issues no read.
ContextMerged(w, c, obj, ctx) ==
    LET merged == Overridden(caches[c][obj].ctx, ctx)
    IN /\ w.caches[c][obj].ctx = merged
       /\ w.reads = <<>>
       /\ \A i \in DOMAIN caches[c][obj].rows : \A f \in DOMAIN caches[c][obj].rows[i] :
             /\ f \in DOMAIN w.caches[c][obj].rows[i]
             /\ w.caches[c][obj].rows[i][f] = caches[c][obj].rows[i][f]
       /\ \A l \in DOMAIN w.lists :
             (w.lists[l].cache = c /\ w.lists[l].obj = obj) => ListContext(w, l) = merged
       /\ \A h \in DOMAIN w.handles :
             (w.handles[h].cache = c /\ w.handles[h].obj = obj) =>
                /\ Context(w, h) = merged
                /\ \A name \in DOMAIN columns_info[obj] :
                     LET g == Record_getitem(w, h, name)
                     IN IF NeedsRead(w, h, name)
                        THEN g.w.reads[1].ctx = merged
                        ELSE g.w.reads = <<>>

\* C27: a context given to the constructor of a record or of a list on a
\* store is merged into the context of the bucket of the collection, seen by
\* every record and list on the bucket and passed by every later read; it
\* changes no cached value and makes no field be read again.
C27_ContextIsPerBucket ==
    \A c \in DOMAIN caches : \A ctx \in QueryCtx :
        /\ \A rid \in Ids :
             ContextMerged(get_record(World, "partner", rid, c, ctx).w, c, "partner", ctx)
        /\ \A ids \in IdSeqs :
             ContextMerged(get_record_list(World, "partner", ids, NoneFields, c, ctx).w,
                           c, "partner", ctx)

\* A record has just been made with a context on a store whose bucket had
\* another: the bucket has the lang of the one and the tz of the other, a
\* list made before is on the bucket, and a row of it holds a field.
C27_Witness ==
    /\ last.op = "get_record"
    /\ last.via = {"lang"}
    /\ \E l \in DOMAIN lists :
         /\ ListContext(World, l) = [lang |-> "fr", tz |-> "utc"]
         /\ \E i \in DOMAIN lists[l].records :
              "name" \in DOMAIN Data(World, lists[l].records[i])

\* The declared fields of a record that are relations.
RelationFields(h) ==
    {f \in DeclaredFields(h) :
        columns_info[handles[h].obj][f].type \in {"many2one", "one2many", "many2many"}}

\* C28: an access of a relational field gives the object the record has
\* memoized for the field when it has one, and memoizes what it gives when
\* it has none; the access after it gives the same object, makes no object
\* and issues no read.  A many2one field whose raw value is falsy gives
\* False, which is memoized like a target and so is told from a field not
\* yet resolved, which has no entry.
C28_RelationsAreMemoized ==
    \A h \in DOMAIN handles : \A name \in RelationFields(h) :
        LET r == Record_getitem(World, h, name)
            again == Record_getitem(Settled(r.w), h, name)
        IN r.err = "" =>
             /\ name \in DOMAIN handles[h].related => r.ret = handles[h].related[name]
             /\ name \in DOMAIN r.w.handles[h].related
             /\ r.w.handles[h].related[name] = r.ret
             /\ again.err = ""
             /\ again.ret = r.ret
             /\ again.w.reads = <<>>
             /\ again.w.handles = r.w.handles
             /\ again.w.lists = r.w.lists
             /\ (/\ name \notin DOMAIN handles[h].related
                 /\ columns_info[handles[h].obj][name].type = "many2one"
                 /\ ~Truthy(Data(r.w, h)[name])) => r.ret = RetFalse

\* A record has resolved its country to a record, another has resolved its
\* country, for which the remote side has no value, to False.
C28_Witness ==
    /\ \E h \in DOMAIN handles :
         /\ "country_id" \in DOMAIN handles[h].related
         /\ handles[h].related["country_id"] = RetFalse
         /\ "country_id" \in DOMAIN Data(World, h)
    /\ \E h \in DOMAIN handles :
         /\ "country_id" \in DOMAIN handles[h].related
         /\ handles[h].related["country_id"].k = "rec"

\* The records that are the memoized many2one target of a member of list l.
ResolvedTargets(l) ==
    {t \in DOMAIN handles :
        \E i \in DOMAIN lists[l].records :
            LET rel == handles[lists[l].records[i]].related
            IN "country_id" \in DOMAIN rel /\ rel["country_id"] = RetRec(t)}

\* C29: resolving a relational field issues no read but the one of the field
\* itself on the collection of the record, and leaves the id of every target
\* registered in the bucket of the target collection in the store of the
\* record, the targets being on that store; so the first miss of a field on
\* a resolved many2one target of a member of a list issues one read, whose
\* ids include the ids of all the resolved targets of the list that lack the
\* field.
C29_TargetsAreRegisteredUnread ==
    /\ \A h \in DOMAIN handles : \A name \in RelationFields(h) :
         LET r == Record_getitem(World, h, name)
             rel == columns_info[handles[h].obj][name].relation
             rows == r.w.caches[handles[h].cache][rel].rows
         IN r.err = "" =>
              /\ \A k \in DOMAIN r.w.reads :
                    /\ k = 1
                    /\ r.w.reads[k].obj = handles[h].obj
                    /\ r.w.reads[k].fields = {name}
                    /\ NeedsRead(World, h, name)
              /\ r.ret.k = "rec" =>
                    /\ r.w.handles[r.ret.i].cache = handles[h].cache
                    /\ r.w.handles[r.ret.i].obj = rel
                    /\ r.w.handles[r.ret.i].id \in DOMAIN rows
              /\ r.ret.k = "list" =>
                    /\ r.w.lists[r.ret.i].cache = handles[h].cache
                    /\ r.w.lists[r.ret.i].obj = rel
                    /\ \A i \in DOMAIN r.w.lists[r.ret.i].records :
                          ListIds(r.w, r.ret.i)[i] \in DOMAIN rows
    /\ \A l \in DOMAIN lists : \A t \in ResolvedTargets(l) :
         NeedsRead(World, t, "name") =>
            LET r == Record_getitem(World, t, "name")
                lacking == {handles[u].id : u \in {v \in ResolvedTargets(l) :
                                                       NeedsRead(World, v, "name")}}
            IN /\ Len(r.w.reads) = 1
               /\ r.w.reads[1].obj = "country"
               /\ lacking \subseteq r.w.reads[1].ids
               /\ \A u \in ResolvedTargets(l) : ~NeedsRead(Settled(r.w), u, "name")

\* Two members of a list have resolved their countries, which are two rows,
\* and the first access of the name of one of them has just read two rows:
\* both hold the name.
C29_Witness ==
    /\ last.op = "getitem"
    /\ last.n = 2
    /\ \E l \in DOMAIN lists :
         /\ Cardinality({handles[t].id : t \in ResolvedTargets(l)}) = 2
         /\ \A t \in ResolvedTargets(l) : "name" \in DOMAIN Data(World, t)

\* C30: when record[name] gives a record for a many2one field, the id of
\* that record is the id in the raw value the row of the record holds for
\* the field.
C30_TargetMatchesCachedValue ==
    \A h \in DOMAIN handles : \A name \in DeclaredFields(h) :
        columns_info[handles[h].obj][name].type = "many2one" =>
            LET r == Record_getitem(World, h, name)
            IN (r.err = "" /\ r.ret.k = "rec") =>
                  /\ Truthy(Data(r.w, h)[name])
                  /\ r.w.handles[r.ret.i].id = Data(r.w, h)[name].id

\* The records a run of refresh entered more than once with something in
\* their memo.
EnteredTwice(seen) ==
    {seen[i].h : i \in {j \in DOMAIN seen :
        /\ seen[j].memo
        /\ \E k \in DOMAIN seen : k < j /\ seen[k].h = seen[j].h /\ seen[k].memo}}

\* C31: refresh() of a record or of a list ends on every graph of records
\* and lists, a record that is a member of a list it has resolved included:
\* the run makes a bounded number of calls, enters no record twice with a
\* memo that holds something, and leaves what Record.refresh leaves.
C31_RefreshTerminates ==
    /\ \A h \in DOMAIN handles :
          LET r == RefreshRun(World, <<RetRec(h)>>, <<>>, RefreshFuel)
          IN /\ r.done
             /\ EnteredTwice(r.seen) = {}
             /\ r.w = Record_refresh(World, h)
    /\ \A l \in DOMAIN lists :
          LET r == RefreshRun(World, <<[k |-> "list", i |-> l]>>, <<>>, RefreshFuel)
          IN /\ r.done
             /\ EnteredTwice(r.seen) = {}
             /\ r.w = RecordList_refresh(World, l)

\* A record is a member of a list it has resolved, and its refresh enters
\* it a second time and ends.
C31_Witness ==
    \E h \in DOMAIN handles :
        /\ \E n \in DOMAIN handles[h].related :
              /\ handles[h].related[n].k = "list"
              /\ \E i \in DOMAIN lists[handles[h].related[n].i].records :
                    lists[handles[h].related[n].i].records[i] = h
        /\ LET r == RefreshRun(World, <<RetRec(h)>>, <<>>, RefreshFuel)
           IN /\ r.done
              /\ Cardinality({i \in DOMAIN r.seen : r.seen[i].h = h}) > 1

\* C32: an access of a relational field that builds its target leaves on
\* the bucket of the target collection, in the store of the record, the
\* context that bucket had with the keys of the context of the record's
\* bucket over it; the context of the record's bucket and of every other
\* bucket is as it was.
C32_ResolutionMergesContext ==
    \A h \in DOMAIN handles : \A name \in RelationFields(h) :
        LET r == Record_getitem(World, h, name)
            c == handles[h].cache
            target == columns_info[handles[h].obj][name].relation
        IN (r.err = "" /\ name \notin DOMAIN handles[h].related
                       /\ r.ret.k \in {"rec", "list"}) =>
              /\ r.w.caches[c][target].ctx =
                     Overridden(caches[c][target].ctx, Context(World, h))
              /\ Context(r.w, h) = Context(World, h)
              /\ \A d \in DOMAIN caches : \A obj \in Colls :
                     (d # c \/ obj # target) =>
                         r.w.caches[d][obj].ctx = caches[d][obj].ctx

\* The bucket of the countries has a context of its own, the bucket of the
\* partners another value under one of its keys, and record['country_id']
\* puts the partners' value on the bucket of the countries.
C32_Witness ==
    \E h \in DOMAIN handles :
        LET r == Record_getitem(World, h, "country_id")
            own == caches[handles[h].cache]["country"].ctx
        IN /\ handles[h].obj = "partner"
           /\ "country_id" \notin DOMAIN handles[h].related
           /\ own = [lang |-> "en", tz |-> "utc"]
           /\ Context(World, h) = [lang |-> "fr"]
           /\ r.err = "" /\ r.ret.k = "rec"
           /\ r.w.caches[handles[h].cache]["country"].ctx = [lang |-> "fr", tz |-> "utc"]
====
